---- MODULE Spec2Model ----
(***************************************************************************)
(* hyperhq/hyper-api, types/types.go: the request/response payload types   *)
(* of the remote API and the wire contract their struct tags declare.      *)
(*                                                                         *)
(* types.go holds declarations only.  What decides every property of the   *)
(* wire format is the pair (field table, codec): the field tables below    *)
(* are the struct declarations, tag by tag; the codec operators are what   *)
(* encoding/json (and, for the `yaml:` tags, gopkg.in/yaml.v2) do with     *)
(* such a table.  Go values and JSON values are trees of one record shape  *)
(* so that any two of them can be compared.                                *)
(***************************************************************************)
EXTENDS Integers, Sequences, FiniteSets, TLC

VARIABLES typ,   \* name of the type the caller works with ("" before any)
          val,   \* the caller's in-memory value of that type
          kept,  \* a value constructed earlier that the caller still holds
          recv,  \* the payload read from the wire, to be decoded
          wire,  \* the JSON payload the last encode wrote
          conf,  \* the structured-config (YAML) document the last encode wrote
          err,   \* whether the last decode returned an error
          op     \* the last operation

vars == <<typ, val, kept, recv, wire, conf, err, op>>

(***************************************************************************)
(* Bounds of the model.                                                    *)
(***************************************************************************)
\* Fields (consecutive in declaration order) that differ from the base
\* value or base payload in one input.
MaxSet == 1
\* Longest list among the sample values.
MaxLen == 1

(***************************************************************************)
(* Values.  k is the kind, s a string, n a number or a nil flag (0 = nil), *)
(* e the elements in order, o the entries of a map or object as a set of   *)
(* <<key, value>> pairs (a set: key order is not part of a payload).       *)
(***************************************************************************)
V(k, s, n, e, o) == [k |-> k, s |-> s, n |-> n, e |-> e, o |-> o]

None == V("none", "", 0, <<>>, {})

\* Go values.
GStr(s)       == V("string", s, 0, <<>>, {})
GInt(s, n)    == V("int", s, n, <<>>, {})
GBool(n)      == V("bool", "", n, <<>>, {})
GTime(n)      == V("time", "", n, <<>>, {})
GNil(k)       == V(k, "", 0, <<>>, {})
GSlice(e)     == V("slice", "", 1, e, {})
GArray(e)     == V("array2", "", 0, e, {})
GMap(o)       == V("map", "", 1, <<>>, o)
GPtr(x)       == V("ptr", "", 1, <<x>>, {})
GStruct(t, e) == V("struct", t, 0, e, {})
GExt(s)       == V("ext", s, 0, <<>>, {})
GAny(j)       == V("any", "", 1, <<j>>, {})

\* JSON values (YAML documents use the same shapes).  A number is the
\* integer n when s = "", n + 0.5 when s = ".5", and otherwise the integer
\* literal s, too large for a float64 mantissa.
JNull   == V("null", "", 0, <<>>, {})
JStr(s) == V("jstring", s, 0, <<>>, {})
JNum(s, n) == V("number", s, n, <<>>, {})
JBool(n) == V("jbool", "", n, <<>>, {})
JArr(e) == V("array", "", 0, e, {})
JObj(o) == V("object", "", 0, <<>>, o)
\* The object an external type (container.Config, network.IPAM, ...)
\* encodes to; s identifies its content.
JExt(s) == V("object", s, 0, <<>>, {})

Keys(o) == { p[1] : p \in o }

(***************************************************************************)
(* The struct declarations.  One row per field: its Go name, its type      *)
(* (outermost constructor first), the comma-separated parts of its `json:` *)
(* tag, those of its `yaml:` tag (<<>> when the tag is absent), and        *)
(* whether the field is embedded.                                          *)
(***************************************************************************)
Field(go, ty, json, yaml, emb) ==
    [go |-> go, ty |-> ty, json |-> json, yaml |-> yaml, emb |-> emb]

\* ContainerCreateResponse with Warnings marked omitempty.
ContainerCreateResponse_WarningsOptional ==
    << Field("ID", <<"string">>, <<"Id">>, <<>>, FALSE),
       Field("Warnings", <<"slice", "string">>, <<"Warnings", "omitempty">>, <<>>, FALSE) >>

\* types.go:15-21
ContainerCreateResponse ==
    << Field("ID", <<"string">>, <<"Id">>, <<>>, FALSE),
       Field("Warnings", <<"slice", "string">>, <<"Warnings">>, <<>>, FALSE) >>

\* types.go:25-28
ContainerExecCreateResponse ==
    << Field("ID", <<"string">>, <<"Id">>, <<>>, FALSE) >>

\* types.go:32-35
ContainerUpdateResponse ==
    << Field("Warnings", <<"slice", "string">>, <<"Warnings">>, <<>>, FALSE) >>

\* types.go:39-46
AuthResponse ==
    << Field("Status", <<"string">>, <<"Status">>, <<>>, FALSE),
       Field("IdentityToken", <<"string">>, <<"IdentityToken", "omitempty">>, <<>>, FALSE) >>

\* types.go:50-53
ContainerWaitResponse ==
    << Field("StatusCode", <<"int">>, <<"StatusCode">>, <<>>, FALSE) >>

\* types.go:57-59
ContainerCommitResponse ==
    << Field("ID", <<"string">>, <<"Id">>, <<>>, FALSE) >>

\* types.go:63-66
ContainerChange ==
    << Field("Kind", <<"int">>, <<>>, <<>>, FALSE),
       Field("Path", <<"string">>, <<>>, <<>>, FALSE) >>

\* types.go:70-77
ImageHistory ==
    << Field("ID", <<"string">>, <<"Id">>, <<>>, FALSE),
       Field("Created", <<"int">>, <<>>, <<>>, FALSE),
       Field("CreatedBy", <<"string">>, <<>>, <<>>, FALSE),
       Field("Tags", <<"slice", "string">>, <<>>, <<>>, FALSE),
       Field("Size", <<"int">>, <<>>, <<>>, FALSE),
       Field("Comment", <<"string">>, <<>>, <<>>, FALSE) >>

\* types.go:81-84
ImageDelete ==
    << Field("Untagged", <<"string">>, <<"", "omitempty">>, <<>>, FALSE),
       Field("Deleted", <<"string">>, <<"", "omitempty">>, <<>>, FALSE) >>

\* Image with the tag of ID left out.
Image_IDUntagged ==
    << Field("ID", <<"string">>, <<>>, <<>>, FALSE),
       Field("ParentID", <<"string">>, <<"ParentId">>, <<>>, FALSE),
       Field("RepoTags", <<"slice", "string">>, <<>>, <<>>, FALSE),
       Field("RepoDigests", <<"slice", "string">>, <<>>, <<>>, FALSE),
       Field("Created", <<"int">>, <<>>, <<>>, FALSE),
       Field("Size", <<"int">>, <<>>, <<>>, FALSE),
       Field("VirtualSize", <<"int">>, <<>>, <<>>, FALSE),
       Field("Labels", <<"map", "string">>, <<>>, <<>>, FALSE) >>

\* types.go:88-97
Image ==
    << Field("ID", <<"string">>, <<"Id">>, <<>>, FALSE),
       Field("ParentID", <<"string">>, <<"ParentId">>, <<>>, FALSE),
       Field("RepoTags", <<"slice", "string">>, <<>>, <<>>, FALSE),
       Field("RepoDigests", <<"slice", "string">>, <<>>, <<>>, FALSE),
       Field("Created", <<"int">>, <<>>, <<>>, FALSE),
       Field("Size", <<"int">>, <<>>, <<>>, FALSE),
       Field("VirtualSize", <<"int">>, <<>>, <<>>, FALSE),
       Field("Labels", <<"map", "string">>, <<>>, <<>>, FALSE) >>

\* types.go:101-104
GraphDriverData ==
    << Field("Name", <<"string">>, <<>>, <<>>, FALSE),
       Field("Data", <<"map", "string">>, <<>>, <<>>, FALSE) >>

\* types.go:107-111
RootFS ==
    << Field("Type", <<"string">>, <<>>, <<>>, FALSE),
       Field("Layers", <<"slice", "string">>, <<"", "omitempty">>, <<>>, FALSE),
       Field("BaseLayer", <<"string">>, <<"", "omitempty">>, <<>>, FALSE) >>

\* types.go:115-133
ImageInspect ==
    << Field("ID", <<"string">>, <<"Id">>, <<>>, FALSE),
       Field("RepoTags", <<"slice", "string">>, <<>>, <<>>, FALSE),
       Field("RepoDigests", <<"slice", "string">>, <<>>, <<>>, FALSE),
       Field("Parent", <<"string">>, <<>>, <<>>, FALSE),
       Field("Comment", <<"string">>, <<>>, <<>>, FALSE),
       Field("Created", <<"string">>, <<>>, <<>>, FALSE),
       Field("Container", <<"string">>, <<>>, <<>>, FALSE),
       Field("ContainerConfig", <<"ptr", "ext", "container.Config">>, <<>>, <<>>, FALSE),
       Field("DockerVersion", <<"string">>, <<>>, <<>>, FALSE),
       Field("Author", <<"string">>, <<>>, <<>>, FALSE),
       Field("Config", <<"ptr", "ext", "container.Config">>, <<>>, <<>>, FALSE),
       Field("Architecture", <<"string">>, <<>>, <<>>, FALSE),
       Field("Os", <<"string">>, <<>>, <<>>, FALSE),
       Field("Size", <<"int">>, <<>>, <<>>, FALSE),
       Field("VirtualSize", <<"int">>, <<>>, <<>>, FALSE),
       Field("GraphDriver", <<"struct", "GraphDriverData">>, <<>>, <<>>, FALSE),
       Field("RootFS", <<"struct", "RootFS">>, <<>>, <<>>, FALSE) >>

\* types.go:137-142
Port ==
    << Field("IP", <<"string">>, <<"", "omitempty">>, <<>>, FALSE),
       Field("PrivatePort", <<"int">>, <<>>, <<>>, FALSE),
       Field("PublicPort", <<"int">>, <<"", "omitempty">>, <<>>, FALSE),
       Field("Type", <<"string">>, <<>>, <<>>, FALSE) >>

\* types.go:159-161
Container_HostConfig ==
    << Field("NetworkMode", <<"string">>, <<"", "omitempty">>, <<>>, FALSE) >>

\* types.go:146-164
Container ==
    << Field("ID", <<"string">>, <<"Id">>, <<>>, FALSE),
       Field("Names", <<"slice", "string">>, <<>>, <<>>, FALSE),
       Field("Image", <<"string">>, <<>>, <<>>, FALSE),
       Field("ImageID", <<"string">>, <<>>, <<>>, FALSE),
       Field("Command", <<"string">>, <<>>, <<>>, FALSE),
       Field("Created", <<"int">>, <<>>, <<>>, FALSE),
       Field("Ports", <<"slice", "struct", "Port">>, <<>>, <<>>, FALSE),
       Field("SizeRw", <<"int">>, <<"", "omitempty">>, <<>>, FALSE),
       Field("SizeRootFs", <<"int">>, <<"", "omitempty">>, <<>>, FALSE),
       Field("Labels", <<"map", "string">>, <<>>, <<>>, FALSE),
       Field("State", <<"string">>, <<>>, <<>>, FALSE),
       Field("Status", <<"string">>, <<>>, <<>>, FALSE),
       Field("HostConfig", <<"struct", "Container_HostConfig">>, <<>>, <<>>, FALSE),
       Field("NetworkSettings", <<"ptr", "struct", "SummaryNetworkSettings">>, <<>>, <<>>, FALSE),
       Field("Mounts", <<"slice", "struct", "MountPoint">>, <<>>, <<>>, FALSE) >>

\* types.go:168-170
CopyConfig ==
    << Field("Resource", <<"string">>, <<>>, <<>>, FALSE) >>

\* types.go:175-181
ContainerPathStat ==
    << Field("Name", <<"string">>, <<"name">>, <<>>, FALSE),
       Field("Size", <<"int">>, <<"size">>, <<>>, FALSE),
       Field("Mode", <<"uint">>, <<"mode">>, <<>>, FALSE),
       Field("Mtime", <<"time">>, <<"mtime">>, <<>>, FALSE),
       Field("LinkTarget", <<"string">>, <<"linkTarget">>, <<>>, FALSE) >>

\* types.go:185-188
ContainerProcessList ==
    << Field("Processes", <<"slice", "slice", "string">>, <<>>, <<>>, FALSE),
       Field("Titles", <<"slice", "string">>, <<>>, <<>>, FALSE) >>

\* types.go:192-202
Version ==
    << Field("Version", <<"string">>, <<>>, <<>>, FALSE),
       Field("APIVersion", <<"string">>, <<"ApiVersion">>, <<>>, FALSE),
       Field("GitCommit", <<"string">>, <<>>, <<>>, FALSE),
       Field("GoVersion", <<"string">>, <<>>, <<>>, FALSE),
       Field("Os", <<"string">>, <<>>, <<>>, FALSE),
       Field("Arch", <<"string">>, <<>>, <<>>, FALSE),
       Field("KernelVersion", <<"string">>, <<"", "omitempty">>, <<>>, FALSE),
       Field("Experimental", <<"bool">>, <<"", "omitempty">>, <<>>, FALSE),
       Field("BuildTime", <<"string">>, <<"", "omitempty">>, <<>>, FALSE) >>

\* types.go:206-255
Info ==
    << Field("ID", <<"string">>, <<>>, <<>>, FALSE),
       Field("Containers", <<"int">>, <<>>, <<>>, FALSE),
       Field("ContainersRunning", <<"int">>, <<>>, <<>>, FALSE),
       Field("ContainersPaused", <<"int">>, <<>>, <<>>, FALSE),
       Field("ContainersStopped", <<"int">>, <<>>, <<>>, FALSE),
       Field("Images", <<"int">>, <<>>, <<>>, FALSE),
       Field("Driver", <<"string">>, <<>>, <<>>, FALSE),
       Field("DriverStatus", <<"slice", "array2", "string">>, <<>>, <<>>, FALSE),
       Field("SystemStatus", <<"slice", "array2", "string">>, <<>>, <<>>, FALSE),
       Field("Plugins", <<"struct", "PluginsInfo">>, <<>>, <<>>, FALSE),
       Field("MemoryLimit", <<"bool">>, <<>>, <<>>, FALSE),
       Field("SwapLimit", <<"bool">>, <<>>, <<>>, FALSE),
       Field("KernelMemory", <<"bool">>, <<>>, <<>>, FALSE),
       Field("CPUCfsPeriod", <<"bool">>, <<"CpuCfsPeriod">>, <<>>, FALSE),
       Field("CPUCfsQuota", <<"bool">>, <<"CpuCfsQuota">>, <<>>, FALSE),
       Field("CPUShares", <<"bool">>, <<>>, <<>>, FALSE),
       Field("CPUSet", <<"bool">>, <<>>, <<>>, FALSE),
       Field("IPv4Forwarding", <<"bool">>, <<>>, <<>>, FALSE),
       Field("BridgeNfIptables", <<"bool">>, <<>>, <<>>, FALSE),
       Field("BridgeNfIP6tables", <<"bool">>, <<"BridgeNfIp6tables">>, <<>>, FALSE),
       Field("Debug", <<"bool">>, <<>>, <<>>, FALSE),
       Field("NFd", <<"int">>, <<>>, <<>>, FALSE),
       Field("OomKillDisable", <<"bool">>, <<>>, <<>>, FALSE),
       Field("NGoroutines", <<"int">>, <<>>, <<>>, FALSE),
       Field("SystemTime", <<"string">>, <<>>, <<>>, FALSE),
       Field("ExecutionDriver", <<"string">>, <<>>, <<>>, FALSE),
       Field("LoggingDriver", <<"string">>, <<>>, <<>>, FALSE),
       Field("CgroupDriver", <<"string">>, <<>>, <<>>, FALSE),
       Field("NEventsListener", <<"int">>, <<>>, <<>>, FALSE),
       Field("KernelVersion", <<"string">>, <<>>, <<>>, FALSE),
       Field("OperatingSystem", <<"string">>, <<>>, <<>>, FALSE),
       Field("OSType", <<"string">>, <<>>, <<>>, FALSE),
       Field("Architecture", <<"string">>, <<>>, <<>>, FALSE),
       Field("IndexServerAddress", <<"string">>, <<>>, <<>>, FALSE),
       Field("RegistryConfig", <<"ptr", "ext", "registry.ServiceConfig">>, <<>>, <<>>, FALSE),
       Field("NCPU", <<"int">>, <<>>, <<>>, FALSE),
       Field("MemTotal", <<"int">>, <<>>, <<>>, FALSE),
       Field("DockerRootDir", <<"string">>, <<>>, <<>>, FALSE),
       Field("HTTPProxy", <<"string">>, <<"HttpProxy">>, <<>>, FALSE),
       Field("HTTPSProxy", <<"string">>, <<"HttpsProxy">>, <<>>, FALSE),
       Field("NoProxy", <<"string">>, <<>>, <<>>, FALSE),
       Field("Name", <<"string">>, <<>>, <<>>, FALSE),
       Field("Labels", <<"slice", "string">>, <<>>, <<>>, FALSE),
       Field("ExperimentalBuild", <<"bool">>, <<>>, <<>>, FALSE),
       Field("ServerVersion", <<"string">>, <<>>, <<>>, FALSE),
       Field("ClusterStore", <<"string">>, <<>>, <<>>, FALSE),
       Field("ClusterAdvertise", <<"string">>, <<>>, <<>>, FALSE),
       Field("SecurityOptions", <<"slice", "string">>, <<>>, <<>>, FALSE) >>

\* types.go:259-266
PluginsInfo ==
    << Field("Volume", <<"slice", "string">>, <<>>, <<>>, FALSE),
       Field("Network", <<"slice", "string">>, <<>>, <<>>, FALSE),
       Field("Authorization", <<"slice", "string">>, <<>>, <<>>, FALSE) >>

\* types.go:270-275
ExecStartCheck ==
    << Field("Detach", <<"bool">>, <<>>, <<>>, FALSE),
       Field("Tty", <<"bool">>, <<>>, <<>>, FALSE) >>

\* types.go:279-291
ContainerState ==
    << Field("Status", <<"string">>, <<>>, <<>>, FALSE),
       Field("Running", <<"bool">>, <<>>, <<>>, FALSE),
       Field("Paused", <<"bool">>, <<>>, <<>>, FALSE),
       Field("Restarting", <<"bool">>, <<>>, <<>>, FALSE),
       Field("OOMKilled", <<"bool">>, <<>>, <<>>, FALSE),
       Field("Dead", <<"bool">>, <<>>, <<>>, FALSE),
       Field("Pid", <<"int">>, <<>>, <<>>, FALSE),
       Field("ExitCode", <<"int">>, <<>>, <<>>, FALSE),
       Field("Error", <<"string">>, <<>>, <<>>, FALSE),
       Field("StartedAt", <<"string">>, <<>>, <<>>, FALSE),
       Field("FinishedAt", <<"string">>, <<>>, <<>>, FALSE) >>

\* types.go:295-303
ContainerNode ==
    << Field("ID", <<"string">>, <<>>, <<>>, FALSE),
       Field("IPAddress", <<"string">>, <<"IP">>, <<>>, FALSE),
       Field("Addr", <<"string">>, <<>>, <<>>, FALSE),
       Field("Name", <<"string">>, <<>>, <<>>, FALSE),
       Field("Cpus", <<"int">>, <<>>, <<>>, FALSE),
       Field("Memory", <<"int">>, <<>>, <<>>, FALSE),
       Field("Labels", <<"map", "string">>, <<>>, <<>>, FALSE) >>

\* ContainerJSONBase with the sizes declared int64 as in Container.
ContainerJSONBase_SizePlain ==
    << Field("ID", <<"string">>, <<"Id">>, <<>>, FALSE),
       Field("Created", <<"string">>, <<>>, <<>>, FALSE),
       Field("Path", <<"string">>, <<>>, <<>>, FALSE),
       Field("Args", <<"slice", "string">>, <<>>, <<>>, FALSE),
       Field("State", <<"ptr", "struct", "ContainerState">>, <<>>, <<>>, FALSE),
       Field("Image", <<"string">>, <<>>, <<>>, FALSE),
       Field("ResolvConfPath", <<"string">>, <<>>, <<>>, FALSE),
       Field("HostnamePath", <<"string">>, <<>>, <<>>, FALSE),
       Field("HostsPath", <<"string">>, <<>>, <<>>, FALSE),
       Field("LogPath", <<"string">>, <<>>, <<>>, FALSE),
       Field("Node", <<"ptr", "struct", "ContainerNode">>, <<"", "omitempty">>, <<>>, FALSE),
       Field("Name", <<"string">>, <<>>, <<>>, FALSE),
       Field("RestartCount", <<"int">>, <<>>, <<>>, FALSE),
       Field("Driver", <<"string">>, <<>>, <<>>, FALSE),
       Field("MountLabel", <<"string">>, <<>>, <<>>, FALSE),
       Field("ProcessLabel", <<"string">>, <<>>, <<>>, FALSE),
       Field("AppArmorProfile", <<"string">>, <<>>, <<>>, FALSE),
       Field("ExecIDs", <<"slice", "string">>, <<>>, <<>>, FALSE),
       Field("HostConfig", <<"ptr", "ext", "container.HostConfig">>, <<>>, <<>>, FALSE),
       Field("GraphDriver", <<"struct", "GraphDriverData">>, <<>>, <<>>, FALSE),
       Field("SizeRw", <<"int">>, <<"", "omitempty">>, <<>>, FALSE),
       Field("SizeRootFs", <<"int">>, <<"", "omitempty">>, <<>>, FALSE) >>


\* types.go:307-330
ContainerJSONBase ==
    << Field("ID", <<"string">>, <<"Id">>, <<>>, FALSE),
       Field("Created", <<"string">>, <<>>, <<>>, FALSE),
       Field("Path", <<"string">>, <<>>, <<>>, FALSE),
       Field("Args", <<"slice", "string">>, <<>>, <<>>, FALSE),
       Field("State", <<"ptr", "struct", "ContainerState">>, <<>>, <<>>, FALSE),
       Field("Image", <<"string">>, <<>>, <<>>, FALSE),
       Field("ResolvConfPath", <<"string">>, <<>>, <<>>, FALSE),
       Field("HostnamePath", <<"string">>, <<>>, <<>>, FALSE),
       Field("HostsPath", <<"string">>, <<>>, <<>>, FALSE),
       Field("LogPath", <<"string">>, <<>>, <<>>, FALSE),
       Field("Node", <<"ptr", "struct", "ContainerNode">>, <<"", "omitempty">>, <<>>, FALSE),
       Field("Name", <<"string">>, <<>>, <<>>, FALSE),
       Field("RestartCount", <<"int">>, <<>>, <<>>, FALSE),
       Field("Driver", <<"string">>, <<>>, <<>>, FALSE),
       Field("MountLabel", <<"string">>, <<>>, <<>>, FALSE),
       Field("ProcessLabel", <<"string">>, <<>>, <<>>, FALSE),
       Field("AppArmorProfile", <<"string">>, <<>>, <<>>, FALSE),
       Field("ExecIDs", <<"slice", "string">>, <<>>, <<>>, FALSE),
       Field("HostConfig", <<"ptr", "ext", "container.HostConfig">>, <<>>, <<>>, FALSE),
       Field("GraphDriver", <<"struct", "GraphDriverData">>, <<>>, <<>>, FALSE),
       Field("SizeRw", <<"ptr", "int">>, <<"", "omitempty">>, <<>>, FALSE),
       Field("SizeRootFs", <<"ptr", "int">>, <<"", "omitempty">>, <<>>, FALSE) >>

\* types.go:333-338
ContainerJSON ==
    << Field("ContainerJSONBase", <<"ptr", "struct", "ContainerJSONBase">>, <<>>, <<>>, TRUE),
       Field("Mounts", <<"slice", "struct", "MountPoint">>, <<>>, <<>>, FALSE),
       Field("Config", <<"ptr", "ext", "container.Config">>, <<>>, <<>>, FALSE),
       Field("NetworkSettings", <<"ptr", "struct", "NetworkSettings">>, <<>>, <<>>, FALSE) >>

\* NetworkSettings with DefaultNetworkSettings as a named field.
NetworkSettings_LegacyNested ==
    << Field("NetworkSettingsBase", <<"struct", "NetworkSettingsBase">>, <<>>, <<>>, TRUE),
       Field("DefaultNetworkSettings", <<"struct", "DefaultNetworkSettings">>, <<>>, <<>>, FALSE),
       Field("Networks", <<"map", "ptr", "ext", "network.EndpointSettings">>, <<>>, <<>>, FALSE) >>

\* types.go:341-345
NetworkSettings ==
    << Field("NetworkSettingsBase", <<"struct", "NetworkSettingsBase">>, <<>>, <<>>, TRUE),
       Field("DefaultNetworkSettings", <<"struct", "DefaultNetworkSettings">>, <<>>, <<>>, TRUE),
       Field("Networks", <<"map", "ptr", "ext", "network.EndpointSettings">>, <<>>, <<>>, FALSE) >>

\* types.go:349-351
SummaryNetworkSettings ==
    << Field("Networks", <<"map", "ptr", "ext", "network.EndpointSettings">>, <<>>, <<>>, FALSE) >>

\* types.go:354-364
NetworkSettingsBase ==
    << Field("Bridge", <<"string">>, <<>>, <<>>, FALSE),
       Field("SandboxID", <<"string">>, <<>>, <<>>, FALSE),
       Field("HairpinMode", <<"bool">>, <<>>, <<>>, FALSE),
       Field("LinkLocalIPv6Address", <<"string">>, <<>>, <<>>, FALSE),
       Field("LinkLocalIPv6PrefixLen", <<"int">>, <<>>, <<>>, FALSE),
       Field("Ports", <<"map", "slice", "ext", "nat.PortBinding">>, <<>>, <<>>, FALSE),
       Field("SandboxKey", <<"string">>, <<>>, <<>>, FALSE),
       Field("SecondaryIPAddresses", <<"slice", "ext", "network.Address">>, <<>>, <<>>, FALSE),
       Field("SecondaryIPv6Addresses", <<"slice", "ext", "network.Address">>, <<>>, <<>>, FALSE) >>

\* types.go:369-378
DefaultNetworkSettings ==
    << Field("EndpointID", <<"string">>, <<>>, <<>>, FALSE),
       Field("Gateway", <<"string">>, <<>>, <<>>, FALSE),
       Field("GlobalIPv6Address", <<"string">>, <<>>, <<>>, FALSE),
       Field("GlobalIPv6PrefixLen", <<"int">>, <<>>, <<>>, FALSE),
       Field("IPAddress", <<"string">>, <<>>, <<>>, FALSE),
       Field("IPPrefixLen", <<"int">>, <<>>, <<>>, FALSE),
       Field("IPv6Gateway", <<"string">>, <<>>, <<>>, FALSE),
       Field("MacAddress", <<"string">>, <<>>, <<>>, FALSE) >>

\* types.go:381-389
MountPoint ==
    << Field("Name", <<"string">>, <<"", "omitempty">>, <<>>, FALSE),
       Field("Source", <<"string">>, <<>>, <<>>, FALSE),
       Field("Destination", <<"string">>, <<>>, <<>>, FALSE),
       Field("Driver", <<"string">>, <<"", "omitempty">>, <<>>, FALSE),
       Field("Mode", <<"string">>, <<>>, <<>>, FALSE),
       Field("RW", <<"bool">>, <<>>, <<>>, FALSE),
       Field("Propagation", <<"string">>, <<>>, <<>>, FALSE) >>

\* types.go:391-396
Snapshot ==
    << Field("ID", <<"string">>, <<>>, <<>>, FALSE),
       Field("Name", <<"string">>, <<>>, <<>>, FALSE),
       Field("Volume", <<"string">>, <<>>, <<>>, FALSE),
       Field("Size", <<"int">>, <<>>, <<>>, FALSE) >>

\* types.go:398-401
SnapshotsListResponse ==
    << Field("Snapshots", <<"slice", "ptr", "struct", "Snapshot">>, <<>>, <<>>, FALSE),
       Field("Warnings", <<"slice", "string">>, <<>>, <<>>, FALSE) >>

\* types.go:403-407
SnapshotCreateRequest ==
    << Field("Name", <<"string">>, <<>>, <<>>, FALSE),
       Field("Volume", <<"string">>, <<>>, <<>>, FALSE),
       Field("Force", <<"bool">>, <<>>, <<>>, FALSE) >>

\* Volume with the omitempty option of Status left out.
Volume_StatusRequired ==
    << Field("Name", <<"string">>, <<>>, <<>>, FALSE),
       Field("Driver", <<"string">>, <<>>, <<>>, FALSE),
       Field("Mountpoint", <<"string">>, <<>>, <<>>, FALSE),
       Field("Status", <<"map", "any">>, <<>>, <<>>, FALSE),
       Field("Labels", <<"map", "string">>, <<>>, <<>>, FALSE),
       Field("Scope", <<"string">>, <<>>, <<>>, FALSE),
       Field("CreatedAt", <<"time">>, <<>>, <<>>, FALSE) >>

\* types.go:410-419
Volume ==
    << Field("Name", <<"string">>, <<>>, <<>>, FALSE),
       Field("Driver", <<"string">>, <<>>, <<>>, FALSE),
       Field("Mountpoint", <<"string">>, <<>>, <<>>, FALSE),
       Field("Status", <<"map", "any">>, <<"", "omitempty">>, <<>>, FALSE),
       Field("Labels", <<"map", "string">>, <<>>, <<>>, FALSE),
       Field("Scope", <<"string">>, <<>>, <<>>, FALSE),
       Field("CreatedAt", <<"time">>, <<>>, <<>>, FALSE) >>

\* types.go:423-426
VolumesListResponse ==
    << Field("Volumes", <<"slice", "ptr", "struct", "Volume">>, <<>>, <<>>, FALSE),
       Field("Warnings", <<"slice", "string">>, <<>>, <<>>, FALSE) >>

\* types.go:430-435
VolumeCreateRequest ==
    << Field("Name", <<"string">>, <<>>, <<>>, FALSE),
       Field("Driver", <<"string">>, <<>>, <<>>, FALSE),
       Field("DriverOpts", <<"map", "string">>, <<>>, <<>>, FALSE),
       Field("Labels", <<"map", "string">>, <<>>, <<>>, FALSE) >>

\* types.go:439-443
VolumesInitializeResponse ==
    << Field("Session", <<"string">>, <<>>, <<>>, FALSE),
       Field("Cookie", <<"string">>, <<>>, <<>>, FALSE),
       Field("Uploaders", <<"map", "string">>, <<>>, <<>>, FALSE) >>

\* types.go:445-448
VolumeInitDesc ==
    << Field("Name", <<"string">>, <<>>, <<>>, FALSE),
       Field("Source", <<"string">>, <<>>, <<>>, FALSE) >>

\* types.go:452-455
VolumesInitializeRequest ==
    << Field("Reload", <<"bool">>, <<>>, <<>>, FALSE),
       Field("Volume", <<"slice", "struct", "VolumeInitDesc">>, <<>>, <<>>, FALSE) >>

\* types.go:458-469
NetworkResource ==
    << Field("Name", <<"string">>, <<>>, <<>>, FALSE),
       Field("ID", <<"string">>, <<"Id">>, <<>>, FALSE),
       Field("Scope", <<"string">>, <<>>, <<>>, FALSE),
       Field("Driver", <<"string">>, <<>>, <<>>, FALSE),
       Field("EnableIPv6", <<"bool">>, <<>>, <<>>, FALSE),
       Field("IPAM", <<"ext", "network.IPAM">>, <<>>, <<>>, FALSE),
       Field("Internal", <<"bool">>, <<>>, <<>>, FALSE),
       Field("Containers", <<"map", "struct", "EndpointResource">>, <<>>, <<>>, FALSE),
       Field("Options", <<"map", "string">>, <<>>, <<>>, FALSE),
       Field("Labels", <<"map", "string">>, <<>>, <<>>, FALSE) >>

\* types.go:472-478
EndpointResource ==
    << Field("Name", <<"string">>, <<>>, <<>>, FALSE),
       Field("EndpointID", <<"string">>, <<>>, <<>>, FALSE),
       Field("MacAddress", <<"string">>, <<>>, <<>>, FALSE),
       Field("IPv4Address", <<"string">>, <<>>, <<>>, FALSE),
       Field("IPv6Address", <<"string">>, <<>>, <<>>, FALSE) >>

\* types.go:481-489
NetworkCreate ==
    << Field("CheckDuplicate", <<"bool">>, <<>>, <<>>, FALSE),
       Field("Driver", <<"string">>, <<>>, <<>>, FALSE),
       Field("EnableIPv6", <<"bool">>, <<>>, <<>>, FALSE),
       Field("IPAM", <<"ext", "network.IPAM">>, <<>>, <<>>, FALSE),
       Field("Internal", <<"bool">>, <<>>, <<>>, FALSE),
       Field("Options", <<"map", "string">>, <<>>, <<>>, FALSE),
       Field("Labels", <<"map", "string">>, <<>>, <<>>, FALSE) >>

\* types.go:492-495
NetworkCreateRequest ==
    << Field("NetworkCreate", <<"struct", "NetworkCreate">>, <<>>, <<>>, TRUE),
       Field("Name", <<"string">>, <<>>, <<>>, FALSE) >>

\* types.go:498-501
NetworkCreateResponse ==
    << Field("ID", <<"string">>, <<"Id">>, <<>>, FALSE),
       Field("Warning", <<"string">>, <<>>, <<>>, FALSE) >>

\* types.go:504-507
NetworkConnect ==
    << Field("Container", <<"string">>, <<>>, <<>>, FALSE),
       Field("EndpointConfig", <<"ptr", "ext", "network.EndpointSettings">>, <<"", "omitempty">>, <<>>, FALSE) >>

\* types.go:510-513
NetworkDisconnect ==
    << Field("Container", <<"string">>, <<>>, <<>>, FALSE),
       Field("Force", <<"bool">>, <<>>, <<>>, FALSE) >>

\* types.go:516-518
Checkpoint ==
    << Field("Name", <<"string">>, <<>>, <<>>, FALSE) >>

\* Rule with the structured-config key of PortRangeMin misspelt.
Rule_YAMLKey ==
    << Field("Direction", <<"string">>, <<"direction">>, <<"direction">>, FALSE),
       Field("EtherType", <<"string">>, <<"-">>, <<"", "omitempty">>, FALSE),
       Field("PortRangeMin", <<"int">>, <<"port_range_min">>, <<"port_range_mix">>, FALSE),
       Field("PortRangeMax", <<"int">>, <<"port_range_max">>, <<"port_range_max">>, FALSE),
       Field("Protocol", <<"string">>, <<"protocol">>, <<"protocol">>, FALSE),
       Field("RemoteIPPrefix", <<"string">>, <<"remote_ip_prefix">>, <<"remote_ip_prefix">>, FALSE),
       Field("RemoteGroupName", <<"string">>, <<"remote_group_name">>, <<"remote_group_name">>, FALSE) >>

\* Rule with EtherType given a JSON key instead of "-".
Rule_EtherTypeOnWire ==
    << Field("Direction", <<"string">>, <<"direction">>, <<"direction">>, FALSE),
       Field("EtherType", <<"string">>, <<"ethertype", "omitempty">>, <<"", "omitempty">>, FALSE),
       Field("PortRangeMin", <<"int">>, <<"port_range_min">>, <<"port_range_min">>, FALSE),
       Field("PortRangeMax", <<"int">>, <<"port_range_max">>, <<"port_range_max">>, FALSE),
       Field("Protocol", <<"string">>, <<"protocol">>, <<"protocol">>, FALSE),
       Field("RemoteIPPrefix", <<"string">>, <<"remote_ip_prefix">>, <<"remote_ip_prefix">>, FALSE),
       Field("RemoteGroupName", <<"string">>, <<"remote_group_name">>, <<"remote_group_name">>, FALSE) >>

\* types.go:520-554
Rule ==
    << Field("Direction", <<"string">>, <<"direction">>, <<"direction">>, FALSE),
       Field("EtherType", <<"string">>, <<"-">>, <<"", "omitempty">>, FALSE),
       Field("PortRangeMin", <<"int">>, <<"port_range_min">>, <<"port_range_min">>, FALSE),
       Field("PortRangeMax", <<"int">>, <<"port_range_max">>, <<"port_range_max">>, FALSE),
       Field("Protocol", <<"string">>, <<"protocol">>, <<"protocol">>, FALSE),
       Field("RemoteIPPrefix", <<"string">>, <<"remote_ip_prefix">>, <<"remote_ip_prefix">>, FALSE),
       Field("RemoteGroupName", <<"string">>, <<"remote_group_name">>, <<"remote_group_name">>, FALSE) >>

\* SecurityGroup with GroupName declared interface{}.
SecurityGroup_NameUntyped ==
    << Field("GroupName", <<"any">>, <<"name">>, <<"name">>, FALSE),
       Field("Description", <<"string">>, <<"description">>, <<"description">>, FALSE),
       Field("Rules", <<"slice", "struct", "Rule">>, <<"rules">>, <<"rules">>, FALSE) >>

\* types.go:556-562
SecurityGroup ==
    << Field("GroupName", <<"string">>, <<"name">>, <<"name">>, FALSE),
       Field("Description", <<"string">>, <<"description">>, <<"description">>, FALSE),
       Field("Rules", <<"slice", "struct", "Rule">>, <<"rules">>, <<"rules">>, FALSE) >>

TypeNames ==
    { "ContainerCreateResponse", "ContainerExecCreateResponse", "ContainerUpdateResponse", "AuthResponse",
      "ContainerWaitResponse", "ContainerCommitResponse", "ContainerChange", "ImageHistory",
      "ImageDelete", "Image", "GraphDriverData", "RootFS",
      "ImageInspect", "Port", "Container_HostConfig", "Container",
      "CopyConfig", "ContainerPathStat", "ContainerProcessList", "Version",
      "Info", "PluginsInfo", "ExecStartCheck", "ContainerState",
      "ContainerNode", "ContainerJSONBase", "ContainerJSON", "NetworkSettings",
      "SummaryNetworkSettings", "NetworkSettingsBase", "DefaultNetworkSettings", "MountPoint",
      "Snapshot", "SnapshotsListResponse", "SnapshotCreateRequest", "Volume",
      "VolumesListResponse", "VolumeCreateRequest", "VolumesInitializeResponse", "VolumeInitDesc",
      "VolumesInitializeRequest", "NetworkResource", "EndpointResource", "NetworkCreate",
      "NetworkCreateRequest", "NetworkCreateResponse", "NetworkConnect", "NetworkDisconnect",
      "Checkpoint", "Rule", "SecurityGroup" }

Fields(t) ==
    CASE t = "ContainerCreateResponse" -> ContainerCreateResponse
      [] t = "ContainerExecCreateResponse" -> ContainerExecCreateResponse
      [] t = "ContainerUpdateResponse" -> ContainerUpdateResponse
      [] t = "AuthResponse" -> AuthResponse
      [] t = "ContainerWaitResponse" -> ContainerWaitResponse
      [] t = "ContainerCommitResponse" -> ContainerCommitResponse
      [] t = "ContainerChange" -> ContainerChange
      [] t = "ImageHistory" -> ImageHistory
      [] t = "ImageDelete" -> ImageDelete
      [] t = "Image" -> Image
      [] t = "GraphDriverData" -> GraphDriverData
      [] t = "RootFS" -> RootFS
      [] t = "ImageInspect" -> ImageInspect
      [] t = "Port" -> Port
      [] t = "Container_HostConfig" -> Container_HostConfig
      [] t = "Container" -> Container
      [] t = "CopyConfig" -> CopyConfig
      [] t = "ContainerPathStat" -> ContainerPathStat
      [] t = "ContainerProcessList" -> ContainerProcessList
      [] t = "Version" -> Version
      [] t = "Info" -> Info
      [] t = "PluginsInfo" -> PluginsInfo
      [] t = "ExecStartCheck" -> ExecStartCheck
      [] t = "ContainerState" -> ContainerState
      [] t = "ContainerNode" -> ContainerNode
      [] t = "ContainerJSONBase" -> ContainerJSONBase
      [] t = "ContainerJSON" -> ContainerJSON
      [] t = "NetworkSettings" -> NetworkSettings
      [] t = "SummaryNetworkSettings" -> SummaryNetworkSettings
      [] t = "NetworkSettingsBase" -> NetworkSettingsBase
      [] t = "DefaultNetworkSettings" -> DefaultNetworkSettings
      [] t = "MountPoint" -> MountPoint
      [] t = "Snapshot" -> Snapshot
      [] t = "SnapshotsListResponse" -> SnapshotsListResponse
      [] t = "SnapshotCreateRequest" -> SnapshotCreateRequest
      [] t = "Volume" -> Volume
      [] t = "VolumesListResponse" -> VolumesListResponse
      [] t = "VolumeCreateRequest" -> VolumeCreateRequest
      [] t = "VolumesInitializeResponse" -> VolumesInitializeResponse
      [] t = "VolumeInitDesc" -> VolumeInitDesc
      [] t = "VolumesInitializeRequest" -> VolumesInitializeRequest
      [] t = "NetworkResource" -> NetworkResource
      [] t = "EndpointResource" -> EndpointResource
      [] t = "NetworkCreate" -> NetworkCreate
      [] t = "NetworkCreateRequest" -> NetworkCreateRequest
      [] t = "NetworkCreateResponse" -> NetworkCreateResponse
      [] t = "NetworkConnect" -> NetworkConnect
      [] t = "NetworkDisconnect" -> NetworkDisconnect
      [] t = "Checkpoint" -> Checkpoint
      [] t = "Rule" -> Rule
      [] t = "SecurityGroup" -> SecurityGroup

FoldPairs ==
    { <<"APIVersion", "apiversion">>, <<"Addr", "addr">>, <<"ApiVersion", "apiversion">>,
      <<"AppArmorProfile", "apparmorprofile">>, <<"Arch", "arch">>, <<"Architecture", "architecture">>,
      <<"Args", "args">>, <<"Author", "author">>, <<"Authorization", "authorization">>,
      <<"BaseLayer", "baselayer">>, <<"Bridge", "bridge">>, <<"BridgeNfIP6tables", "bridgenfip6tables">>,
      <<"BridgeNfIp6tables", "bridgenfip6tables">>, <<"BridgeNfIptables", "bridgenfiptables">>, <<"BuildTime", "buildtime">>,
      <<"CPUCfsPeriod", "cpucfsperiod">>, <<"CPUCfsQuota", "cpucfsquota">>, <<"CPUSet", "cpuset">>,
      <<"CPUShares", "cpushares">>, <<"CgroupDriver", "cgroupdriver">>, <<"CheckDuplicate", "checkduplicate">>,
      <<"ClusterAdvertise", "clusteradvertise">>, <<"ClusterStore", "clusterstore">>, <<"Command", "command">>,
      <<"Comment", "comment">>, <<"Config", "config">>, <<"Container", "container">>,
      <<"ContainerConfig", "containerconfig">>, <<"ContainerJSONBase", "containerjsonbase">>, <<"Containers", "containers">>,
      <<"ContainersPaused", "containerspaused">>, <<"ContainersRunning", "containersrunning">>, <<"ContainersStopped", "containersstopped">>,
      <<"Cookie", "cookie">>, <<"CpuCfsPeriod", "cpucfsperiod">>, <<"CpuCfsQuota", "cpucfsquota">>,
      <<"Cpus", "cpus">>, <<"Created", "created">>, <<"CreatedAt", "createdat">>,
      <<"CreatedBy", "createdby">>, <<"Data", "data">>, <<"Dead", "dead">>,
      <<"Debug", "debug">>, <<"DefaultNetworkSettings", "defaultnetworksettings">>, <<"Deleted", "deleted">>,
      <<"Description", "description">>, <<"Destination", "destination">>, <<"Detach", "detach">>,
      <<"Direction", "direction">>, <<"DockerRootDir", "dockerrootdir">>, <<"DockerVersion", "dockerversion">>,
      <<"Driver", "driver">>, <<"DriverOpts", "driveropts">>, <<"DriverStatus", "driverstatus">>,
      <<"EnableIPv6", "enableipv6">>, <<"EndpointConfig", "endpointconfig">>, <<"EndpointID", "endpointid">>,
      <<"Error", "error">>, <<"EtherType", "ethertype">>, <<"ExecIDs", "execids">>,
      <<"ExecutionDriver", "executiondriver">>, <<"ExitCode", "exitcode">>, <<"Experimental", "experimental">>,
      <<"ExperimentalBuild", "experimentalbuild">>, <<"FinishedAt", "finishedat">>, <<"Force", "force">>,
      <<"Gateway", "gateway">>, <<"GitCommit", "gitcommit">>, <<"GlobalIPv6Address", "globalipv6address">>,
      <<"GlobalIPv6PrefixLen", "globalipv6prefixlen">>, <<"GoVersion", "goversion">>, <<"GraphDriver", "graphdriver">>,
      <<"GroupName", "groupname">>, <<"HTTPProxy", "httpproxy">>, <<"HTTPSProxy", "httpsproxy">>,
      <<"HairpinMode", "hairpinmode">>, <<"HostConfig", "hostconfig">>, <<"HostnamePath", "hostnamepath">>,
      <<"HostsPath", "hostspath">>, <<"HttpProxy", "httpproxy">>, <<"HttpsProxy", "httpsproxy">>,
      <<"ID", "id">>, <<"IP", "ip">>, <<"IPAM", "ipam">>,
      <<"IPAddress", "ipaddress">>, <<"IPPrefixLen", "ipprefixlen">>, <<"IPv4Address", "ipv4address">>,
      <<"IPv4Forwarding", "ipv4forwarding">>, <<"IPv6Address", "ipv6address">>, <<"IPv6Gateway", "ipv6gateway">>,
      <<"Id", "id">>, <<"IdentityToken", "identitytoken">>, <<"Image", "image">>,
      <<"ImageID", "imageid">>, <<"Images", "images">>, <<"IndexServerAddress", "indexserveraddress">>,
      <<"Internal", "internal">>, <<"KernelMemory", "kernelmemory">>, <<"KernelVersion", "kernelversion">>,
      <<"Kind", "kind">>, <<"Labels", "labels">>, <<"Layers", "layers">>,
      <<"LinkLocalIPv6Address", "linklocalipv6address">>, <<"LinkLocalIPv6PrefixLen", "linklocalipv6prefixlen">>, <<"LinkTarget", "linktarget">>,
      <<"LogPath", "logpath">>, <<"LoggingDriver", "loggingdriver">>, <<"MacAddress", "macaddress">>,
      <<"MemTotal", "memtotal">>, <<"Memory", "memory">>, <<"MemoryLimit", "memorylimit">>,
      <<"Mode", "mode">>, <<"MountLabel", "mountlabel">>, <<"Mountpoint", "mountpoint">>,
      <<"Mounts", "mounts">>, <<"Mtime", "mtime">>, <<"NCPU", "ncpu">>,
      <<"NEventsListener", "neventslistener">>, <<"NFd", "nfd">>, <<"NGoroutines", "ngoroutines">>,
      <<"Name", "name">>, <<"Names", "names">>, <<"Network", "network">>,
      <<"NetworkCreate", "networkcreate">>, <<"NetworkMode", "networkmode">>, <<"NetworkSettings", "networksettings">>,
      <<"NetworkSettingsBase", "networksettingsbase">>, <<"Networks", "networks">>, <<"NoProxy", "noproxy">>,
      <<"Node", "node">>, <<"OOMKilled", "oomkilled">>, <<"OSType", "ostype">>,
      <<"OomKillDisable", "oomkilldisable">>, <<"OperatingSystem", "operatingsystem">>, <<"Options", "options">>,
      <<"Os", "os">>, <<"Parent", "parent">>, <<"ParentID", "parentid">>,
      <<"ParentId", "parentid">>, <<"Path", "path">>, <<"Paused", "paused">>,
      <<"Pid", "pid">>, <<"Plugins", "plugins">>, <<"PortRangeMax", "portrangemax">>,
      <<"PortRangeMin", "portrangemin">>, <<"Ports", "ports">>, <<"PrivatePort", "privateport">>,
      <<"ProcessLabel", "processlabel">>, <<"Processes", "processes">>, <<"Propagation", "propagation">>,
      <<"Protocol", "protocol">>, <<"PublicPort", "publicport">>, <<"RW", "rw">>,
      <<"RegistryConfig", "registryconfig">>, <<"Reload", "reload">>, <<"RemoteGroupName", "remotegroupname">>,
      <<"RemoteIPPrefix", "remoteipprefix">>, <<"RepoDigests", "repodigests">>, <<"RepoTags", "repotags">>,
      <<"ResolvConfPath", "resolvconfpath">>, <<"Resource", "resource">>, <<"RestartCount", "restartcount">>,
      <<"Restarting", "restarting">>, <<"RootFS", "rootfs">>, <<"Rules", "rules">>,
      <<"Running", "running">>, <<"SandboxID", "sandboxid">>, <<"SandboxKey", "sandboxkey">>,
      <<"Scope", "scope">>, <<"SecondaryIPAddresses", "secondaryipaddresses">>, <<"SecondaryIPv6Addresses", "secondaryipv6addresses">>,
      <<"SecurityOptions", "securityoptions">>, <<"ServerVersion", "serverversion">>, <<"Session", "session">>,
      <<"Size", "size">>, <<"SizeRootFs", "sizerootfs">>, <<"SizeRw", "sizerw">>,
      <<"Snapshots", "snapshots">>, <<"Source", "source">>, <<"StartedAt", "startedat">>,
      <<"State", "state">>, <<"Status", "status">>, <<"StatusCode", "statuscode">>,
      <<"SwapLimit", "swaplimit">>, <<"SystemStatus", "systemstatus">>, <<"SystemTime", "systemtime">>,
      <<"Tags", "tags">>, <<"Titles", "titles">>, <<"Tty", "tty">>,
      <<"Type", "type">>, <<"Untagged", "untagged">>, <<"Uploaders", "uploaders">>,
      <<"Version", "version">>, <<"VirtualSize", "virtualsize">>, <<"Volume", "volume">>,
      <<"Volumes", "volumes">>, <<"Warning", "warning">>, <<"Warnings", "warnings">>,
      <<"description", "description">>, <<"direction", "direction">>, <<"linkTarget", "linktarget">>,
      <<"mode", "mode">>, <<"mtime", "mtime">>, <<"name", "name">>,
      <<"port_range_max", "port_range_max">>, <<"port_range_min", "port_range_min">>, <<"protocol", "protocol">>,
      <<"remote_group_name", "remote_group_name">>, <<"remote_ip_prefix", "remote_ip_prefix">>, <<"rules", "rules">>,
      <<"size", "size">> }

(***************************************************************************)
(* Struct tags.                                                            *)
(***************************************************************************)
TagName(tag) == IF Len(tag) = 0 THEN "" ELSE tag[1]

TagHas(tag, opt) == \E i \in 2..Len(tag) : tag[i] = opt

\* strings.ToLower on the names this file declares (a key outside the
\* table is taken to be lower case already).
FoldTable == [k \in { p[1] : p \in FoldPairs } |->
                 (CHOOSE p \in FoldPairs : p[1] = k)[2]]

Fold(s) == IF s \in DOMAIN FoldTable THEN FoldTable[s] ELSE s

\* `json:"-"`: the field is left out of the JSON encoding altogether.
JSONSkipped(f) == TagName(f.json) = "-" /\ Len(f.json) = 1

\* The key a field has in a JSON object: the tag's name, or the Go name
\* when the tag gives none.
JSONName(f) == IF TagName(f.json) # "" THEN TagName(f.json) ELSE f.go

JSONOmitEmpty(f) == TagHas(f.json, "omitempty")

\* An embedded struct without a name of its own in the tag: its fields are
\* promoted into the enclosing object.
Promoted(f) == f.emb /\ TagName(f.json) = ""

\* yaml.v2: "-" skips the field; the default key is the lower-cased name.
YAMLSkipped(f) == TagName(f.yaml) = "-" /\ Len(f.yaml) = 1

YAMLName(f) == IF TagName(f.yaml) # "" THEN TagName(f.yaml) ELSE Fold(f.go)

YAMLOmitEmpty(f) == TagHas(f.yaml, "omitempty")

\* The types that declare a structured-config mapping.
DualEncoded(t) == \E i \in 1..Len(Fields(t)) : Fields(t)[i].yaml # <<>>

(***************************************************************************)
(* time.Time.  Instant 0 is the zero time, instant 1 is half a second      *)
(* past 2016-01-01T00:00:00Z.  MarshalJSON writes RFC3339Nano, which drops *)
(* trailing zeros of the fraction; UnmarshalJSON accepts any fraction.     *)
(***************************************************************************)
TimeFormat(n) == IF n = 0 THEN "0001-01-01T00:00:00Z"
                          ELSE "2016-01-01T00:00:00.5Z"

TimeParse == [s \in {"0001-01-01T00:00:00Z", "2016-01-01T00:00:00.5Z",
                     "2016-01-01T00:00:00.500Z"} |->
                 IF s = "0001-01-01T00:00:00Z" THEN 0 ELSE 1]

\* float64 holds 53 bits of mantissa: 2^53 + 1 is read as 2^53.
BigInt == "9007199254740993"

BigIntAsFloat == "9007199254740992"

\* What a JSON value becomes when it is decoded into an interface{}: every
\* number is a float64.
RECURSIVE Float64(_)
Float64(j) ==
    CASE j.k = "number" -> IF j.s = BigInt THEN JNum(BigIntAsFloat, j.n) ELSE j
      [] j.k = "array"  -> JArr([i \in 1..Len(j.e) |-> Float64(j.e[i])])
      [] j.k = "object" -> V("object", j.s, 0, <<>>, { <<p[1], Float64(p[2])>> : p \in j.o })
      [] OTHER -> j

(***************************************************************************)
(* Zero values.                                                            *)
(***************************************************************************)
RECURSIVE ZeroV(_)
ZeroV(ty) ==
    CASE ty[1] = "string" -> GStr("")
      [] ty[1] \in {"int", "uint"} -> GInt("", 0)
      [] ty[1] = "bool"   -> GBool(0)
      [] ty[1] = "time"   -> GTime(0)
      [] ty[1] \in {"slice", "map", "ptr", "any"} -> GNil(ty[1])
      [] ty[1] = "array2" -> GArray(<<ZeroV(Tail(ty)), ZeroV(Tail(ty))>>)
      [] ty[1] = "ext"    -> GExt("")
      [] ty[1] = "struct" ->
           GStruct(ty[2], [i \in 1..Len(Fields(ty[2])) |-> ZeroV(Fields(ty[2])[i].ty)])

Zero(t) == ZeroV(<<"struct", t>>)

(***************************************************************************)
(* encoding/json, Marshal.                                                 *)
(***************************************************************************)
\* A variant that looks through a reference: a set reference to 0 or ""
\* counts as empty too.
IsEmptyValue_Deref(v) ==
    CASE v.k = "string" -> v.s = ""
      [] v.k = "int"    -> v.n = 0 /\ v.s = ""
      [] v.k = "bool"   -> v.n = 0
      [] v.k = "slice"  -> v.n = 0 \/ Len(v.e) = 0
      [] v.k = "map"    -> v.n = 0 \/ v.o = {}
      [] v.k = "ptr"    -> v.n = 0 \/ v.e[1] \in {GInt("", 0), GStr("")}
      [] v.k = "any"    -> v.n = 0
      [] OTHER -> FALSE

\* isEmptyValue: false, 0, a nil pointer or interface, and any array,
\* slice, map or string of length zero.  A struct is never empty.
IsEmptyValue(v) ==
    CASE v.k = "string" -> v.s = ""
      [] v.k = "int"    -> v.n = 0 /\ v.s = ""
      [] v.k = "bool"   -> v.n = 0
      [] v.k = "slice"  -> v.n = 0 \/ Len(v.e) = 0
      [] v.k = "map"    -> v.n = 0 \/ v.o = {}
      [] v.k \in {"ptr", "any"} -> v.n = 0
      [] OTHER -> FALSE

RECURSIVE MarshalV(_, _), StructPairs(_, _), FieldPairs(_, _)
MarshalV(ty, v) ==
    CASE ty[1] = "string" -> JStr(v.s)
      [] ty[1] \in {"int", "uint"} -> JNum(v.s, v.n)
      [] ty[1] = "bool"   -> JBool(v.n)
      [] ty[1] = "time"   -> JStr(TimeFormat(v.n))
      [] ty[1] = "slice"  ->
           IF v.n = 0 THEN JNull
           ELSE JArr([i \in 1..Len(v.e) |-> MarshalV(Tail(ty), v.e[i])])
      [] ty[1] = "array2" ->
           JArr([i \in 1..Len(v.e) |-> MarshalV(Tail(ty), v.e[i])])
      [] ty[1] = "map"    ->
           IF v.n = 0 THEN JNull
           ELSE JObj({ <<p[1], MarshalV(Tail(ty), p[2])>> : p \in v.o })
      [] ty[1] = "ptr"    ->
           IF v.n = 0 THEN JNull ELSE MarshalV(Tail(ty), v.e[1])
      [] ty[1] = "struct" -> JObj(StructPairs(ty[2], v))
      [] ty[1] = "ext"    -> JExt(v.s)
      [] ty[1] = "any"    -> IF v.n = 0 THEN JNull ELSE v.e[1]

\* The key/value pairs one field contributes to its struct's object.
FieldPairs(f, x) ==
    IF JSONSkipped(f) THEN {}
    ELSE IF Promoted(f) THEN
        IF f.ty[1] = "ptr"
        THEN IF x.n = 0 THEN {} ELSE StructPairs(f.ty[3], x.e[1])
        ELSE StructPairs(f.ty[2], x)
    ELSE IF JSONOmitEmpty(f) /\ IsEmptyValue(x) THEN {}
    ELSE { <<JSONName(f), MarshalV(f.ty, x)>> }

StructPairs(t, v) ==
    UNION { FieldPairs(Fields(t)[i], v.e[i]) : i \in 1..Len(Fields(t)) }

Marshal(t, v) == MarshalV(<<"struct", t>>, v)

(***************************************************************************)
(* gopkg.in/yaml.v2, Marshal.  A nil slice or map is written as an empty   *)
(* sequence or mapping; only a nil pointer or interface is written null.   *)
(***************************************************************************)
RECURSIVE YAMLIsZero(_)
YAMLIsZero(v) ==
    CASE v.k = "string" -> v.s = ""
      [] v.k = "int"    -> v.n = 0 /\ v.s = ""
      [] v.k = "bool"   -> v.n = 0
      [] v.k = "slice"  -> v.n = 0 \/ Len(v.e) = 0
      [] v.k = "map"    -> v.n = 0 \/ v.o = {}
      [] v.k \in {"ptr", "any"} -> v.n = 0
      [] v.k = "struct" -> \A i \in 1..Len(v.e) : YAMLIsZero(v.e[i])
      [] OTHER -> FALSE

RECURSIVE MarshalYAMLV(_, _)
MarshalYAMLV(ty, v) ==
    CASE ty[1] = "string" -> JStr(v.s)
      [] ty[1] \in {"int", "uint"} -> JNum(v.s, v.n)
      [] ty[1] = "bool"   -> JBool(v.n)
      [] ty[1] = "time"   -> JStr(TimeFormat(v.n))
      [] ty[1] \in {"slice", "array2"} ->
           JArr([i \in 1..Len(v.e) |-> MarshalYAMLV(Tail(ty), v.e[i])])
      [] ty[1] = "map"    ->
           JObj({ <<p[1], MarshalYAMLV(Tail(ty), p[2])>> : p \in v.o })
      [] ty[1] = "ptr"    ->
           IF v.n = 0 THEN JNull ELSE MarshalYAMLV(Tail(ty), v.e[1])
      [] ty[1] = "struct" ->
           JObj({ <<YAMLName(Fields(ty[2])[i]),
                    MarshalYAMLV(Fields(ty[2])[i].ty, v.e[i])>> :
                  i \in { j \in 1..Len(Fields(ty[2])) :
                            /\ ~YAMLSkipped(Fields(ty[2])[j])
                            /\ ~(YAMLOmitEmpty(Fields(ty[2])[j])
                                   /\ YAMLIsZero(v.e[j])) } })
      [] ty[1] = "ext"    -> JExt(v.s)
      [] ty[1] = "any"    -> IF v.n = 0 THEN JNull ELSE v.e[1]

MarshalYAML(t, v) == MarshalYAMLV(<<"struct", t>>, v)

(***************************************************************************)
(* encoding/json, Unmarshal.  A key is matched to a field by its exact     *)
(* name, else ignoring case; a key no field matches is ignored; a field no *)
(* key matches keeps the value it had; null leaves a field as it was (and  *)
(* sets a pointer, slice, map or interface to nil).  A value of the wrong  *)
(* JSON type is skipped and reported: the decode goes on and returns the   *)
(* error at the end.  The payloads of this model give a field at most one  *)
(* key.                                                                    *)
(***************************************************************************)
Match(w, o) ==
    LET exact == { p \in o : p[1] = w }
    IN  IF exact # {} THEN exact ELSE { p \in o : Fold(p[1]) = Fold(w) }

RECURSIVE MatchesAny(_, _)
MatchesAny(t, o) ==
    \E i \in 1..Len(Fields(t)) :
        LET f == Fields(t)[i]
        IN  /\ ~JSONSkipped(f)
            /\ IF Promoted(f)
               THEN MatchesAny(f.ty[Len(f.ty)], o)
               ELSE Match(JSONName(f), o) # {}

Ok(v)   == [v |-> v, err |-> FALSE]
Bad(v)  == [v |-> v, err |-> TRUE]

RECURSIVE DecodeV(_, _, _), DecodeStruct(_, _, _), DecodeField(_, _, _)
DecodeV(ty, j, old) ==
    IF j.k = "null"
    THEN Ok(IF ty[1] \in {"slice", "map", "ptr", "any"} THEN GNil(ty[1]) ELSE old)
    ELSE
    CASE ty[1] = "string" ->
           IF j.k = "jstring" THEN Ok(GStr(j.s)) ELSE Bad(old)
      [] ty[1] = "int"    ->
           IF j.k = "number" /\ j.s # ".5" THEN Ok(GInt(j.s, j.n)) ELSE Bad(old)
      [] ty[1] = "uint"   ->
           IF j.k = "number" /\ j.s = "" /\ j.n >= 0 THEN Ok(GInt("", j.n)) ELSE Bad(old)
      [] ty[1] = "bool"   ->
           IF j.k = "jbool" THEN Ok(GBool(j.n)) ELSE Bad(old)
      [] ty[1] = "time"   ->
           IF j.k = "jstring" /\ j.s \in DOMAIN TimeParse
           THEN Ok(GTime(TimeParse[j.s])) ELSE Bad(old)
      [] ty[1] = "slice"  ->
           IF j.k # "array" THEN Bad(old)
           ELSE LET r == [i \in 1..Len(j.e) |->
                            DecodeV(Tail(ty), j.e[i], ZeroV(Tail(ty)))]
                IN  [v   |-> GSlice([i \in 1..Len(j.e) |-> r[i].v]),
                     err |-> \E i \in 1..Len(j.e) : r[i].err]
      [] ty[1] = "array2" ->
           IF j.k # "array" THEN Bad(old)
           ELSE LET r == [i \in 1..2 |->
                            IF i <= Len(j.e)
                            THEN DecodeV(Tail(ty), j.e[i], old.e[i])
                            ELSE Ok(ZeroV(Tail(ty)))]
                IN  [v   |-> GArray(<<r[1].v, r[2].v>>),
                     err |-> r[1].err \/ r[2].err]
      [] ty[1] = "map"    ->
           IF j.k # "object" THEN Bad(old)
           ELSE LET r(p) == DecodeV(Tail(ty), p[2], ZeroV(Tail(ty)))
                IN  [v   |-> GMap({ <<p[1], r(p).v>> : p \in j.o }
                                    \cup (IF old.n = 0 THEN {}
                                          ELSE { q \in old.o : q[1] \notin Keys(j.o) })),
                     err |-> \E p \in j.o : r(p).err]
      [] ty[1] = "ptr"    ->
           LET r == DecodeV(Tail(ty), j,
                            IF old.n = 0 THEN ZeroV(Tail(ty)) ELSE old.e[1])
           IN  [v |-> GPtr(r.v), err |-> r.err]
      [] ty[1] = "struct" ->
           IF j.k # "object" THEN Bad(old) ELSE DecodeStruct(ty[2], j.o, old)
      [] ty[1] = "ext"    ->
           IF j.k # "object" THEN Bad(old) ELSE Ok(GExt(j.s))
      [] ty[1] = "any"    -> Ok(GAny(Float64(j)))

DecodeField(f, o, old) ==
    IF JSONSkipped(f) THEN Ok(old)
    ELSE IF Promoted(f) THEN
        IF f.ty[1] = "ptr"
        THEN IF ~MatchesAny(f.ty[3], o) THEN Ok(old)
             ELSE LET r == DecodeStruct(f.ty[3], o,
                              IF old.n = 0 THEN Zero(f.ty[3]) ELSE old.e[1])
                  IN  [v |-> GPtr(r.v), err |-> r.err]
        ELSE DecodeStruct(f.ty[2], o, old)
    ELSE LET m == Match(JSONName(f), o)
         IN  IF m = {} THEN Ok(old)
             ELSE DecodeV(f.ty, (CHOOSE p \in m : TRUE)[2], old)

DecodeStruct(t, o, old) ==
    LET r == [i \in 1..Len(Fields(t)) |-> DecodeField(Fields(t)[i], o, old.e[i])]
    IN  [v   |-> GStruct(t, [i \in 1..Len(Fields(t)) |-> r[i].v]),
         err |-> \E i \in 1..Len(Fields(t)) : r[i].err]

\* A decoder that takes an empty string or list for a missing value and
\* rejects it.
Unmarshal_EmptyRejected(t, j, v) ==
    IF j.k = "object" /\ \E p \in j.o : p[2] \in {JStr(""), JArr(<<>>)}
    THEN Bad(v)
    ELSE DecodeV(<<"struct", t>>, j, v)

\* json.Unmarshal(payload, &v) for v of struct type t.
Unmarshal(t, j, v) == DecodeV(<<"struct", t>>, j, v)

(***************************************************************************)
(* The inputs of the model: the values a caller builds and the payloads    *)
(* that arrive on the wire.                                                *)
(***************************************************************************)
\* A value with every field set; one with every field empty but not nil.
RECURSIVE NonZero(_)
NonZero(ty) ==
    CASE ty[1] = "string" -> GStr("abc123")
      [] ty[1] \in {"int", "uint"} -> GInt("", 1)
      [] ty[1] = "bool"   -> GBool(1)
      [] ty[1] = "time"   -> GTime(1)
      [] ty[1] = "slice"  -> GSlice(<<NonZero(Tail(ty))>>)
      [] ty[1] = "array2" -> GArray(<<NonZero(Tail(ty)), NonZero(Tail(ty))>>)
      [] ty[1] = "map"    -> GMap({ <<"k", NonZero(Tail(ty))>> })
      [] ty[1] = "ptr"    -> GPtr(NonZero(Tail(ty)))
      [] ty[1] = "ext"    -> GExt("x")
      [] ty[1] = "any"    -> GAny(JStr("abc123"))
      [] ty[1] = "struct" ->
           GStruct(ty[2], [i \in 1..Len(Fields(ty[2])) |-> NonZero(Fields(ty[2])[i].ty)])

RECURSIVE EmptyV(_)
EmptyV(ty) ==
    CASE ty[1] = "slice"  -> GSlice(<<>>)
      [] ty[1] = "map"    -> GMap({})
      [] ty[1] = "ptr"    -> GPtr(EmptyV(Tail(ty)))
      [] ty[1] = "struct" ->
           GStruct(ty[2], [i \in 1..Len(Fields(ty[2])) |-> EmptyV(Fields(ty[2])[i].ty)])
      [] OTHER -> ZeroV(ty)

Full(t) == NonZero(<<"struct", t>>)

BasesOf == [t \in TypeNames |-> { Zero(t), EmptyV(<<"struct", t>>), Full(t) }]

Bases(t) == BasesOf[t]

\* The sample values of one field.
Samples(ty) ==
    {ZeroV(ty), EmptyV(ty), NonZero(ty)}
      \cup (IF ty[1] = "string" THEN {GStr("web")} ELSE {})
      \cup (IF ty[1] = "slice"
            THEN { GSlice([i \in 1..k |-> NonZero(Tail(ty))]) : k \in 1..MaxLen }
            ELSE {})

\* v with the k fields from the i-th on replaced by samples.
RECURSIVE EditValues(_, _, _, _)
EditValues(t, v, i, k) ==
    IF k = 0 \/ i > Len(Fields(t)) THEN {v}
    ELSE UNION { EditValues(t, [v EXCEPT !.e[i] = x], i + 1, k - 1) :
                 x \in Samples(Fields(t)[i].ty) }

\* The fields at which a run of MaxSet replaced fields starts.
Starts(n) == { i \in 1..n : (i - 1) % MaxSet = 0 }

BuildInputs(t) ==
    UNION { EditValues(t, b, i, MaxSet) : b \in Bases(t), i \in Starts(Len(Fields(t))) }

\* The fields of t with the promoted ones in place, in declaration order.
RECURSIVE FlatFrom(_, _)
FlatFrom(t, i) ==
    IF i > Len(Fields(t)) THEN <<>>
    ELSE LET f == Fields(t)[i]
         IN  (IF Promoted(f) /\ ~JSONSkipped(f)
              THEN FlatFrom(f.ty[Len(f.ty)], 1) ELSE <<f>>) \o FlatFrom(t, i + 1)

FlatFieldsOf == [t \in TypeNames |-> FlatFrom(t, 1)]

FlatFields(t) == FlatFieldsOf[t]

\* JSON values that are not what the encoder writes for the type: of the
\* wrong JSON type, a number or time in another notation, or a structure
\* with such a value inside.
RECURSIVE OddJ(_)
OddJ(ty) ==
    CASE ty[1] = "string" -> {JNum("", 1)}
      [] ty[1] \in {"int", "uint"} -> {JStr("abc123"), JNum(".5", 1), JNum(BigInt, 0)}
      [] ty[1] = "bool"   -> {JStr("abc123")}
      [] ty[1] = "time"   -> {JNum("", 1), JStr("abc123"), JStr("2016-01-01T00:00:00.500Z")}
      [] ty[1] = "slice"  -> {JStr("abc123")} \cup { JArr(<<j>>) : j \in OddJ(Tail(ty)) }
      [] ty[1] = "array2" -> {JStr("abc123"), JArr(<<MarshalV(Tail(ty), NonZero(Tail(ty)))>>)}
      [] ty[1] = "map"    -> {JStr("abc123")} \cup { JObj({<<"k", j>>}) : j \in OddJ(Tail(ty)) }
      [] ty[1] = "ptr"    -> OddJ(Tail(ty))
      [] ty[1] = "ext"    -> {JStr("abc123")}
      [] ty[1] = "any"    -> {JNum("", 1), JNum(BigInt, 0)}
      [] ty[1] = "struct" ->
           LET f    == FlatFields(ty[2])[1]
               full == Marshal(ty[2], Full(ty[2])).o
           IN  {JStr("abc123"), JObj({})}
                 \cup { JObj({ p \in full : p[1] # JSONName(f) } \cup {<<JSONName(f), j>>}) :
                        j \in OddJ(f.ty) }

\* The ways one field can appear in a payload: not at all, under its key
\* with a sample or an odd value or null, or under another spelling of the
\* key (the Go name, or the key in lower case).
AltKey(f) == IF f.go # JSONName(f) THEN f.go ELSE Fold(f.go)

JVariants(f) ==
    IF JSONSkipped(f) THEN { {}, {<<f.go, JStr("abc123")>>} }
    ELSE {{}}
           \cup { {<<JSONName(f), MarshalV(f.ty, x)>>} : x \in Samples(f.ty) }
           \cup { {<<JSONName(f), j>>} : j \in OddJ(f.ty) \cup {JNull} }
           \cup { {<<AltKey(f), MarshalV(f.ty, NonZero(f.ty))>>} }

\* The pairs o with those of the k fields from the i-th on replaced.
RECURSIVE EditPairs(_, _, _, _)
EditPairs(fl, o, i, k) ==
    IF k = 0 \/ i > Len(fl) THEN {o}
    ELSE UNION { EditPairs(fl, { p \in o : p[1] # JSONName(fl[i]) } \cup c, i + 1, k - 1) :
                 c \in JVariants(fl[i]) }

BasePayloadsOf == [t \in TypeNames |-> { Marshal(t, b) : b \in Bases(t) }]

BasePayloads(t) == BasePayloadsOf[t]

ReceiveInputs(t) ==
    { JObj(o) : o \in UNION { EditPairs(FlatFields(t), b.o, i, MaxSet) :
                              b \in BasePayloads(t), i \in Starts(Len(FlatFields(t))) } }
      \cup {JNull, JArr(<<>>)}

(***************************************************************************)
(* The operations.                                                         *)
(***************************************************************************)
Init ==
    /\ typ = ""
    /\ val = None
    /\ kept = None
    /\ recv = None
    /\ wire = None
    /\ conf = None
    /\ err = FALSE
    /\ op = "init"

\* The caller builds a value of some type t.
Build ==
    /\ op = "init"
    /\ \E t \in TypeNames : \E v \in BuildInputs(t) :
           /\ typ' = t
           /\ val' = v
    /\ op' = "built"
    /\ UNCHANGED <<kept, recv, wire, conf, err>>

\* json.Marshal(val).
Encode ==
    /\ op \in {"built", "encoded", "yaml", "decoded"}
    /\ wire' = Marshal(typ, val)
    /\ op' = "encoded"
    /\ UNCHANGED <<typ, val, kept, recv, conf, err>>

\* yaml.Marshal(val), for the types that declare `yaml:` tags.
EncodeYAML ==
    /\ op \in {"built", "encoded", "yaml", "decoded"}
    /\ DualEncoded(typ)
    /\ conf' = MarshalYAML(typ, val)
    /\ op' = "yaml"
    /\ UNCHANGED <<typ, val, kept, recv, wire, err>>

\* A payload for some type t arrives; the caller declares a fresh value (var v T)
\* to decode it into.
Receive ==
    /\ op = "init"
    /\ \E t \in TypeNames : \E p \in ReceiveInputs(t) :
           /\ typ' = t
           /\ recv' = p
           /\ val' = Zero(t)
    /\ op' = "received"
    /\ UNCHANGED <<kept, wire, conf, err>>

\* The same while the caller still holds the value it built: the value is
\* kept aside, the output of the earlier call is dropped, and a fresh value
\* is declared for the decode.
ReceiveHolding ==
    /\ op \in {"built", "encoded"}
    /\ val \in Bases(typ)
    /\ kept' = val
    /\ \E p \in BasePayloads(typ) : recv' = p
    /\ val' = Zero(typ)
    /\ wire' = None
    /\ conf' = None
    /\ op' = "received"
    /\ UNCHANGED <<typ, err>>

\* The same, but the caller decodes into a copy of the value it holds
\* (v := kept): the copy shares the pointers, maps and slice arrays of the
\* original.
ReceiveIntoCopy ==
    /\ op \in {"built", "encoded"}
    /\ val \in Bases(typ)
    /\ kept' = val
    /\ \E p \in BasePayloads(typ) : recv' = p
    /\ wire' = None
    /\ conf' = None
    /\ op' = "copied"
    /\ UNCHANGED <<typ, val, err>>

\* A copy that is another reference to the value: all of it is shared.
Through_Reference(ty, orig, copy) == copy

\* What a value reads as after a copy of it was decoded into, given what
\* the copy has become: a non-nil pointer or map is the same object in
\* both, and a slice of the copy is refilled in the array the original's
\* slice points into; everything else was copied.
RECURSIVE Through(_, _, _)
Through(ty, orig, copy) ==
    CASE ty[1] \in {"ptr", "map"} ->
           IF orig.n = 0 \/ copy.n = 0 THEN orig ELSE copy
      [] ty[1] = "slice" ->
           IF orig.n = 0 \/ copy.n = 0 THEN orig
           ELSE GSlice([i \in 1..Len(orig.e) |->
                          IF i <= Len(copy.e) THEN copy.e[i] ELSE orig.e[i]])
      [] ty[1] = "array2" ->
           GArray([i \in 1..2 |-> Through(Tail(ty), orig.e[i], copy.e[i])])
      [] ty[1] = "struct" ->
           GStruct(ty[2], [i \in 1..Len(Fields(ty[2])) |->
                             Through(Fields(ty[2])[i].ty, orig.e[i], copy.e[i])])
      [] OTHER -> orig

\* json.Unmarshal(recv, &val).
Decode ==
    /\ op \in {"received", "copied"}
    /\ LET r == Unmarshal(typ, recv, val)
       IN  /\ val' = r.v
           /\ err' = r.err
           /\ kept' = IF op = "copied" THEN Through(<<"struct", typ>>, kept, r.v)
                                       ELSE kept
    /\ op' = (IF op = "copied" THEN "merged" ELSE "decoded")
    /\ UNCHANGED <<typ, recv, wire, conf>>

Next ==
    \/ Build
    \/ Encode
    \/ EncodeYAML
    \/ Receive
    \/ ReceiveHolding
    \/ ReceiveIntoCopy
    \/ Decode

Spec == Init /\ [][Next]_vars

(***************************************************************************)
(* Vocabulary of the properties.                                           *)
(***************************************************************************)
\* The values of the fields FlatFields lists, in the same order; None for
\* a field promoted from an embedded pointer that is nil.
RECURSIVE FlatValsFrom(_, _, _)
FlatValsFrom(t, v, i) ==
    IF i > Len(Fields(t)) THEN <<>>
    ELSE LET f == Fields(t)[i]
             x == v.e[i]
             inner == f.ty[Len(f.ty)]
         IN  (IF Promoted(f) /\ ~JSONSkipped(f)
              THEN IF f.ty[1] = "ptr"
                   THEN IF x.n = 0
                        THEN [j \in 1..Len(FlatFields(inner)) |-> None]
                        ELSE FlatValsFrom(inner, x.e[1], 1)
                   ELSE FlatValsFrom(inner, x, 1)
              ELSE <<x>>) \o FlatValsFrom(t, v, i + 1)

FlatVals(t, v) == FlatValsFrom(t, v, 1)

\* A field value that is the zero value of its type, or an empty list or map.
ZeroOrEmpty(ty, x) ==
    \/ x = ZeroV(ty)
    \/ ty[1] = "slice" /\ x = GSlice(<<>>)
    \/ ty[1] = "map" /\ x = GMap({})

\* A JSON value that stands for a zero or empty value of the type.
EmptyJ(ty, j) ==
    CASE ty[1] = "string" -> j = JStr("")
      [] ty[1] \in {"int", "uint"} -> j = JNum("", 0)
      [] ty[1] = "bool"   -> j = JBool(0)
      [] ty[1] = "slice"  -> j \in {JNull, JArr(<<>>)}
      [] ty[1] = "map"    -> j \in {JNull, JObj({})}
      [] ty[1] \in {"ptr", "any"} -> j = JNull
      [] OTHER -> FALSE

\* Whether JSON value j has the shape of type ty.  mode "open": every
\* required key is there and every value under a declared key has the JSON
\* type of its field (null for a list, map or reference); "closed": also
\* no other key; "canonical": also every time and number is written the
\* way the encoder writes it.
RECURSIVE Shaped(_, _, _), ShapedPairs(_, _, _)
Shaped(ty, j, mode) ==
    CASE ty[1] = "string" -> j.k = "jstring"
      [] ty[1] = "int"    -> j.k = "number" /\ j.s # ".5"
      [] ty[1] = "uint"   -> j.k = "number" /\ j.s = "" /\ j.n >= 0
      [] ty[1] = "bool"   -> j.k = "jbool"
      [] ty[1] = "time"   ->
           /\ j.k = "jstring"
           /\ j.s \in {"0001-01-01T00:00:00Z", "2016-01-01T00:00:00.5Z",
                       "2016-01-01T00:00:00.500Z"}
           /\ mode = "canonical" => j.s # "2016-01-01T00:00:00.500Z"
      [] ty[1] = "slice"  ->
           \/ j.k = "null"
           \/ j.k = "array" /\ \A i \in 1..Len(j.e) : Shaped(Tail(ty), j.e[i], mode)
      [] ty[1] = "array2" ->
           j.k = "array" /\ Len(j.e) = 2
                         /\ \A i \in 1..Len(j.e) : Shaped(Tail(ty), j.e[i], mode)
      [] ty[1] = "map"    ->
           \/ j.k = "null"
           \/ j.k = "object" /\ \A p \in j.o : Shaped(Tail(ty), p[2], mode)
      [] ty[1] = "ptr"    -> j.k = "null" \/ Shaped(Tail(ty), j, mode)
      [] ty[1] = "struct" -> j.k = "object" /\ ShapedPairs(ty[2], j.o, mode)
      [] ty[1] = "ext"    -> j.k = "object"
      [] ty[1] = "any"    ->
           mode = "canonical" => ~(j.k = "number" /\ j.s = BigInt)

ShapedPairs(t, o, mode) ==
    LET fl == SelectSeq(FlatFields(t), LAMBDA f : ~JSONSkipped(f))
    IN  /\ \A i \in 1..Len(fl) :
              /\ ~JSONOmitEmpty(fl[i]) => JSONName(fl[i]) \in Keys(o)
              /\ \A p \in o : p[1] = JSONName(fl[i]) => Shaped(fl[i].ty, p[2], mode)
        /\ mode # "open" =>
              /\ \A p \in o : \E i \in 1..Len(fl) : p[1] = JSONName(fl[i])
              /\ Cardinality(Keys(o)) = Cardinality(o)

WellFormed(t, j, mode) == Shaped(<<"struct", t>>, j, mode)

\* Whether payload b is payload a, but for keys of omit-if-empty fields
\* that a carries with a zero or empty value.
RECURSIVE SameButOmitted(_, _, _), SamePairs(_, _, _)
SameButOmitted(ty, a, b) ==
    \/ a = b
    \/ CASE ty[1] \in {"slice", "array2"} ->
              /\ a.k = "array" /\ b.k = "array" /\ Len(a.e) = Len(b.e)
              /\ \A i \in 1..Len(a.e) : SameButOmitted(Tail(ty), a.e[i], b.e[i])
         [] ty[1] = "map" ->
              /\ a.k = "object" /\ b.k = "object" /\ Keys(a.o) = Keys(b.o)
              /\ \A p \in a.o : \E q \in b.o :
                     q[1] = p[1] /\ SameButOmitted(Tail(ty), p[2], q[2])
         [] ty[1] = "ptr" -> SameButOmitted(Tail(ty), a, b)
         [] ty[1] = "struct" ->
              a.k = "object" /\ b.k = "object" /\ SamePairs(ty[2], a.o, b.o)
         [] OTHER -> FALSE

SamePairs(t, A, B) ==
    LET fl == SelectSeq(FlatFields(t), LAMBDA f : ~JSONSkipped(f))
    IN  /\ Keys(B) \subseteq Keys(A)
        /\ \A p \in A : \E i \in 1..Len(fl) :
              /\ p[1] = JSONName(fl[i])
              /\ \/ \E q \in B : q[1] = p[1] /\ SameButOmitted(fl[i].ty, p[2], q[2])
                 \/ /\ p[1] \notin Keys(B)
                    /\ JSONOmitEmpty(fl[i])
                    /\ EmptyJ(fl[i].ty, p[2])

\* The payload was decoded and the result encoded again.
RoundTripped == recv # None /\ wire # None /\ op = "encoded"

(***************************************************************************)
(* C1 (as stated): for every type and every well-formed payload of it,     *)
(* decoding the payload and encoding the result yields the payload again,  *)
(* but for keys of omit-if-empty fields whose value is zero or empty.      *)
(***************************************************************************)
C1_RoundTripAnyNotation ==
    (RoundTripped /\ WellFormed(typ, recv, "closed"))
        => ~err /\ SameButOmitted(<<"struct", typ>>, recv, wire)

(***************************************************************************)
(* C1 (amended): the same for every well-formed payload whose timestamps   *)
(* are written as the encoder writes them (RFC 3339 without trailing zeros *)
(* in the fraction) and whose numbers under Volume.Status are exactly      *)
(* representable as float64.                                               *)
(***************************************************************************)
C1_RoundTrip ==
    (RoundTripped /\ WellFormed(typ, recv, "canonical"))
        => ~err /\ SameButOmitted(<<"struct", typ>>, recv, wire)

\* A well-formed payload came back without one of its keys.
C1_Witness ==
    /\ RoundTripped
    /\ WellFormed(typ, recv, "canonical")
    /\ ~err
    /\ wire # recv

(***************************************************************************)
(* C2: for every field tagged omitempty, an encoding of a value in which   *)
(* the field is zero or empty lacks the field's key, and an encoding of a  *)
(* value in which it is not empty has the key; a Volume with an empty      *)
(* Status map encodes without "Status" and with Name, Driver, Mountpoint   *)
(* and Scope.                                                              *)
(***************************************************************************)
C2_OmitEmpty ==
    /\ wire # None =>
          /\ LET fl == FlatFields(typ)
                 xs == FlatVals(typ, val)
             IN  \A i \in 1..Len(fl) :
                    (JSONOmitEmpty(fl[i]) /\ ~JSONSkipped(fl[i]) /\ xs[i] # None) =>
                        (ZeroOrEmpty(fl[i].ty, xs[i]) <=> JSONName(fl[i]) \notin Keys(wire.o))
          /\ (typ = "Volume" /\ val.e[4] \in {GNil("map"), GMap({})}) =>
                /\ "Status" \notin Keys(wire.o)
                /\ {"Name", "Driver", "Mountpoint", "Scope"} \subseteq Keys(wire.o)
          /\ (typ = "AuthResponse" /\ val.e[2] # GStr("")) =>
                <<"IdentityToken", JStr(val.e[2].s)>> \in wire.o
    /\ conf # None =>
          LET fs == Fields(typ)
          IN  \A i \in 1..Len(fs) :
                  YAMLOmitEmpty(fs[i]) =>
                      (ZeroOrEmpty(fs[i].ty, val.e[i]) <=> YAMLName(fs[i]) \notin Keys(conf.o))

\* A Volume with an empty, non-nil Status map was encoded.
C2_Witness ==
    /\ typ = "Volume"
    /\ wire # None
    /\ val.e[4] = GMap({})
    /\ val.e[1] = GStr("abc123")
    /\ "Status" \notin Keys(wire.o)
    /\ "Name" \in Keys(wire.o)

(***************************************************************************)
(* C3 (as stated): every field that is not marked omit-if-empty has its    *)
(* key in the encoded payload for every value of the field.                *)
(***************************************************************************)
C3_EveryUnmarkedFieldPresent ==
    wire # None =>
        LET fl == FlatFields(typ)
        IN  \A i \in 1..Len(fl) :
                ~JSONOmitEmpty(fl[i]) => JSONName(fl[i]) \in Keys(wire.o)

(***************************************************************************)
(* C3 (amended): every field that is neither marked omit-if-empty nor      *)
(* excluded from the JSON encoding (json:"-": Rule.EtherType) has its key  *)
(* in the encoded payload for every value of the field, zero and empty     *)
(* included; the fields promoted from ContainerJSON's embedded             *)
(* *ContainerJSONBase have theirs whenever that reference is set.  A       *)
(* ContainerCreateResponse with ID "abc123" and an empty Warnings list     *)
(* encodes to exactly "Id":"abc123" and "Warnings":[].                     *)
(***************************************************************************)
C3_RequiredPresent ==
    wire # None =>
        /\ LET fl == FlatFields(typ)
               xs == FlatVals(typ, val)
           IN  \A i \in 1..Len(fl) :
                  (~JSONOmitEmpty(fl[i]) /\ ~JSONSkipped(fl[i]) /\ xs[i] # None) =>
                      JSONName(fl[i]) \in Keys(wire.o)
        /\ (typ = "ContainerCreateResponse"
              /\ val.e = <<GStr("abc123"), GSlice(<<>>)>>) =>
              wire = JObj({ <<"Id", JStr("abc123")>>, <<"Warnings", JArr(<<>>)>> })

\* The container-create response of the example was encoded.
C3_Witness ==
    /\ typ = "ContainerCreateResponse"
    /\ val.e = <<GStr("abc123"), GSlice(<<>>)>>
    /\ wire # None
    /\ "Warnings" \in Keys(wire.o)

(***************************************************************************)
(* C4: a field whose tag names a wire key is written under that key and    *)
(* never under its Go name, and a payload that uses the wire key populates *)
(* the field; a field whose tag names no key keeps its Go name on the wire *)
(* (Snapshot.ID and Info.ID are "ID", not "Id").                           *)
(***************************************************************************)
C4_WireNames ==
    /\ wire # None =>
          /\ LET fl == FlatFields(typ)
                 xs == FlatVals(typ, val)
             IN  \A i \in 1..Len(fl) :
                    LET w == IF TagName(fl[i].json) = "" THEN fl[i].go
                                                         ELSE TagName(fl[i].json)
                    IN  (~JSONSkipped(fl[i]) /\ xs[i] # None) =>
                           /\ fl[i].go # w => fl[i].go \notin Keys(wire.o)
                           /\ ~(JSONOmitEmpty(fl[i]) /\ ZeroOrEmpty(fl[i].ty, xs[i])) =>
                                 /\ w \in Keys(wire.o)
                                 /\ fl[i].ty = <<"string">> =>
                                       <<w, JStr(xs[i].s)>> \in wire.o
          /\ typ \in {"Image", "ImageHistory", "ContainerCreateResponse"} =>
                "Id" \in Keys(wire.o) /\ "ID" \notin Keys(wire.o)
          /\ typ = "Image" =>
                "ParentId" \in Keys(wire.o) /\ "ParentID" \notin Keys(wire.o)
          /\ typ = "Version" =>
                "ApiVersion" \in Keys(wire.o) /\ "APIVersion" \notin Keys(wire.o)
          /\ typ = "ContainerNode" =>
                "IP" \in Keys(wire.o) /\ "IPAddress" \notin Keys(wire.o)
          /\ typ = "SecurityGroup" =>
                "name" \in Keys(wire.o) /\ "GroupName" \notin Keys(wire.o)
          /\ typ \in {"Snapshot", "Info"} =>
                "ID" \in Keys(wire.o) /\ "Id" \notin Keys(wire.o)
    /\ (op = "decoded" /\ recv.k = "object") =>
          /\ LET fl == FlatFields(typ)
                 xs == FlatVals(typ, val)
             IN  \A i \in 1..Len(fl) : \A p \in recv.o :
                    (/\ ~JSONSkipped(fl[i])
                     /\ fl[i].ty = <<"string">>
                     /\ p[1] = JSONName(fl[i])
                     /\ p[2].k = "jstring") => xs[i] = GStr(p[2].s)
          /\ typ = "Image" =>
                \A p \in recv.o :
                    (p[1] = "Id" /\ p[2].k = "jstring") => val.e[1] = GStr(p[2].s)

\* An Image payload with "Id" was decoded into the field ID.
C4_Witness ==
    /\ typ = "Image"
    /\ op = "decoded"
    /\ <<"Id", JStr("web")>> \in recv.o
    /\ val.e[1] = GStr("web")

\* Whether JSON value j, present and not null, is of another JSON type
\* than ty takes (at any depth).
RECURSIVE Clashes(_, _), ClashPairs(_, _)
Clashes(ty, j) ==
    /\ j.k # "null"
    /\ CASE ty[1] = "string" -> j.k # "jstring"
         [] ty[1] = "int"    -> ~(j.k = "number" /\ j.s # ".5")
         [] ty[1] = "uint"   -> ~(j.k = "number" /\ j.s = "" /\ j.n >= 0)
         [] ty[1] = "bool"   -> j.k # "jbool"
         [] ty[1] = "time"   ->
              ~(j.k = "jstring" /\ j.s \in {"0001-01-01T00:00:00Z",
                                            "2016-01-01T00:00:00.5Z",
                                            "2016-01-01T00:00:00.500Z"})
         [] ty[1] = "slice"  ->
              j.k # "array" \/ \E i \in 1..Len(j.e) : Clashes(Tail(ty), j.e[i])
         [] ty[1] = "array2" ->
              j.k # "array" \/ \E i \in 1..Len(j.e) : i <= 2 /\ Clashes(Tail(ty), j.e[i])
         [] ty[1] = "map"    ->
              j.k # "object" \/ \E p \in j.o : Clashes(Tail(ty), p[2])
         [] ty[1] = "ptr"    -> Clashes(Tail(ty), j)
         [] ty[1] = "struct" -> j.k # "object" \/ ClashPairs(ty[2], j.o)
         [] ty[1] = "ext"    -> j.k # "object"
         [] ty[1] = "any"    -> FALSE

\* The pair of o that is read into field f, if any: the one under the
\* field's key, else one under the key in another case.
ReadFor(f, o) ==
    IF JSONName(f) \in Keys(o)
    THEN { p \in o : p[1] = JSONName(f) }
    ELSE { p \in o : Fold(p[1]) = Fold(JSONName(f)) }

ClashPairs(t, o) ==
    LET fl == SelectSeq(FlatFields(t), LAMBDA f : ~JSONSkipped(f))
    IN  \E i \in 1..Len(fl) : \E p \in ReadFor(fl[i], o) : Clashes(fl[i].ty, p[2])

(***************************************************************************)
(* C5 (as stated): decoding a payload that does not have the shape of the  *)
(* type (a required key missing, a value of the wrong type, a malformed    *)
(* nested structure) returns an error.                                     *)
(***************************************************************************)
C5_MalformedAlwaysFails ==
    (op = "decoded" /\ ~WellFormed(typ, recv, "open")) => err

(***************************************************************************)
(* C5 (amended): decoding returns an error exactly when some value of the  *)
(* payload that is present and not null has another JSON type than its     *)
(* field (at any depth, the top level included); a payload that lacks a    *)
(* required key, or has null in its place, decodes without error and       *)
(* leaves that field at its zero value.                                    *)
(***************************************************************************)
C5_TypeClashFails ==
    op = "decoded" =>
        /\ err <=> Clashes(<<"struct", typ>>, recv)
        /\ (~err /\ recv.k = "object") =>
              LET fl == FlatFields(typ)
                  xs == FlatVals(typ, val)
              IN  \A i \in 1..Len(fl) :
                     (\A p \in ReadFor(fl[i], recv.o) : p[2] = JNull) =>
                         xs[i] \in {None, ZeroV(fl[i].ty)}
        /\ (typ = "SecurityGroup" /\ recv.k = "object"
              /\ <<"name", JNum("", 1)>> \in recv.o) => err

\* A container-create response without its "Id" was decoded.
C5_Witness ==
    /\ typ = "ContainerCreateResponse"
    /\ op = "decoded"
    /\ recv = JObj({ <<"Warnings", JArr(<<>>)>> })
    /\ ~err
    /\ val.e[1] = GStr("")

\* A YAML document without its "ethertype" keys, and a JSON payload with a
\* null rule list read as an empty one.
DropEtherType(j) == JObj({ p \in j.o : p[1] # "ethertype" })

WithoutEtherType(t, doc) ==
    IF t = "Rule" THEN DropEtherType(doc)
    ELSE JObj({ IF p[1] = "rules"
                THEN <<"rules", JArr([i \in 1..Len(p[2].e) |-> DropEtherType(p[2].e[i])])>>
                ELSE p : p \in doc.o })

NullRulesAsEmpty(t, payload) ==
    IF t = "Rule" THEN payload
    ELSE JObj({ IF p[1] = "rules" /\ p[2] = JNull THEN <<"rules", JArr(<<>>)>> ELSE p :
                p \in payload.o })

BothEncoded == DualEncoded(typ) /\ wire # None /\ conf # None

(***************************************************************************)
(* C6 (as stated): the JSON encoding and the structured-config encoding of *)
(* one SecurityGroup or Rule value carry the same fields with the same     *)
(* contents.                                                               *)
(***************************************************************************)
C6_SameEncodings == (typ # "" /\ BothEncoded) => wire = conf

(***************************************************************************)
(* C6 (amended): every field of SecurityGroup and Rule other than          *)
(* Rule.EtherType declares a JSON name and the same structured-config      *)
(* name, and the two encodings of one value carry the same keys and        *)
(* contents for those fields; EtherType is carried by the structured-      *)
(* config encoding alone (key "ethertype", when not empty), and a nil      *)
(* Rules list is null in JSON and an empty sequence in structured config.  *)
(***************************************************************************)
C6_DualEncoding ==
    /\ \A t \in {"Rule", "SecurityGroup"} : \A i \in 1..Len(Fields(t)) :
          LET f == Fields(t)[i]
          IN  f.go # "EtherType" =>
                 /\ TagName(f.json) \notin {"", "-"}
                 /\ TagName(f.yaml) = TagName(f.json)
    /\ (typ # "" /\ BothEncoded) =>
          NullRulesAsEmpty(typ, wire) = WithoutEtherType(typ, conf)

\* A security group with a rule that has an EtherType was encoded both ways.
C6_Witness ==
    /\ typ = "SecurityGroup"
    /\ wire # None
    /\ conf # None
    /\ val.e[3].n = 1
    /\ Len(val.e[3].e) = 1
    /\ val.e[3].e[1].e[2] = GStr("abc123")
    /\ "ethertype" \in Keys(conf.o \cup UNION { r.o : r \in { conf.e[i] : i \in 1..Len(conf.e) } }
                               \cup UNION { UNION { p[2].e[i].o : i \in 1..Len(p[2].e) } : p \in conf.o })

(***************************************************************************)
(* C7: decoding {"name": n, "description": "", "rules": []} into a         *)
(* SecurityGroup succeeds and gives GroupName n, an empty Description and  *)
(* an empty (not nil) Rules list.                                          *)
(***************************************************************************)
C7_EmptyGroupDecodes ==
    (/\ typ = "SecurityGroup"
     /\ op = "decoded"
     /\ recv.k = "object"
     /\ \E n \in {"", "web", "abc123"} :
           recv.o = { <<"name", JStr(n)>>, <<"description", JStr("")>>,
                      <<"rules", JArr(<<>>)>> }) =>
        /\ ~err
        /\ val.k = "struct"
        /\ <<"name", JStr(val.e[1].s)>> \in recv.o
        /\ val.e[1].k = "string"
        /\ val.e[2] = GStr("")
        /\ val.e[3] = GSlice(<<>>)

\* The payload of the example was decoded.
C7_Witness ==
    /\ typ = "SecurityGroup"
    /\ op = "decoded"
    /\ recv = JObj({ <<"name", JStr("web")>>, <<"description", JStr("")>>,
                     <<"rules", JArr(<<>>)>> })
    /\ val = GStruct("SecurityGroup", <<GStr("web"), GStr(""), GSlice(<<>>)>>)

\* What every step of encoding leaves alone.
EncodeFrame ==
    /\ op' \in {"encoded", "yaml"} =>
          /\ val' = val
          /\ kept' = kept
          /\ recv' = recv
    /\ (op' = "encoded" /\ wire # None) => wire' = wire
    /\ (op' = "yaml" /\ conf # None) => conf' = conf

C8_WitnessEncodedAgain ==
    /\ op = "encoded"
    /\ conf # None
    /\ wire # None

(***************************************************************************)
(* C9: the payload of a NetworkSettings is one flat object whose keys are  *)
(* those of NetworkSettingsBase, those of DefaultNetworkSettings and       *)
(* "Networks"; decoding a payload with the legacy keys at the top level    *)
(* populates the embedded parts.                                           *)
(***************************************************************************)
C9_FlatNetworkSettings ==
    /\ (typ = "NetworkSettings" /\ wire # None) =>
          /\ Keys(wire.o) =
                { NetworkSettingsBase[i].go : i \in 1..Len(NetworkSettingsBase) }
                  \cup { DefaultNetworkSettings[i].go : i \in 1..Len(DefaultNetworkSettings) }
                  \cup {"Networks"}
          /\ {"Bridge", "SandboxID", "Ports", "EndpointID", "Gateway", "IPAddress",
              "MacAddress", "Networks"} \subseteq Keys(wire.o)
          /\ {"NetworkSettingsBase", "DefaultNetworkSettings"} \cap Keys(wire.o) = {}
          /\ <<"Bridge", JStr(val.e[1].e[1].s)>> \in wire.o
          /\ <<"IPAddress", JStr(val.e[2].e[5].s)>> \in wire.o
    /\ (typ = "NetworkSettings" /\ op = "decoded" /\ recv.k = "object") =>
          \A p \in recv.o :
              /\ (p[1] = "Bridge" /\ p[2].k = "jstring") => val.e[1].e[1] = GStr(p[2].s)
              /\ (p[1] = "IPAddress" /\ p[2].k = "jstring") => val.e[2].e[5] = GStr(p[2].s)
              /\ (p[1] = "Gateway" /\ p[2].k = "jstring") => val.e[2].e[2] = GStr(p[2].s)

\* A flat payload with a bridge and an address was decoded.
C9_Witness ==
    /\ typ = "NetworkSettings"
    /\ op = "decoded"
    /\ <<"Bridge", JStr("abc123")>> \in recv.o
    /\ <<"IPAddress", JStr("abc123")>> \in recv.o
    /\ val.e[1].e[1] = GStr("abc123")
    /\ val.e[2].e[5] = GStr("abc123")

(***************************************************************************)
(* C10: Rule.EtherType is never part of a Rule's JSON payload and is never *)
(* set by decoding one, so a Rule that goes through JSON comes back equal  *)
(* but for an empty EtherType; the structured-config encoding carries it   *)
(* when it is not empty.                                                   *)
(***************************************************************************)
C10_EtherTypeOffWire ==
    /\ (typ = "Rule" /\ wire # None) =>
          Keys(wire.o) = {"direction", "port_range_min", "port_range_max", "protocol",
                          "remote_ip_prefix", "remote_group_name"}
    /\ (typ = "SecurityGroup" /\ wire # None) =>
          \A p \in wire.o : p[1] = "rules" =>
              \A i \in 1..Len(p[2].e) :
                  \A k \in Keys(p[2].e[i].o) : Fold(k) # "ethertype"
    /\ (typ = "Rule" /\ op = "decoded") => val.e[2] = GStr("")
    /\ (typ = "Rule" /\ op = "decoded" /\ kept # None /\ recv = Marshal("Rule", kept)) =>
          /\ ~err
          /\ val = [kept EXCEPT !.e[2] = GStr("")]
    /\ (typ = "Rule" /\ conf # None) =>
          /\ "ethertype" \in Keys(conf.o) <=> val.e[2].s # ""
          /\ val.e[2].s # "" => <<"ethertype", JStr(val.e[2].s)>> \in conf.o

\* A Rule with an EtherType came back from its own payload without it.
C10_Witness ==
    /\ typ = "Rule"
    /\ op = "decoded"
    /\ kept # None
    /\ kept.e[2] = GStr("abc123")
    /\ recv = Marshal("Rule", kept)
    /\ val.e[2] = GStr("")

\* A payload that names EtherType was decoded into a Rule.
C10_WitnessKeyIgnored ==
    /\ typ = "Rule"
    /\ op = "decoded"
    /\ "EtherType" \in Keys(recv.o)
    /\ ~err

\* The position of the field named g among the fields of t.
FieldAt(t, g) == CHOOSE i \in 1..Len(Fields(t)) : Fields(t)[i].go = g

(***************************************************************************)
(* C11: in ContainerJSONBase SizeRw and SizeRootFs are references: the key *)
(* is absent exactly when the reference is nil, a reference to 0 is        *)
(* written as the key with 0, and a payload with "SizeRw":0 comes back     *)
(* with it.  In Container they are plain integers: the key is absent       *)
(* exactly when the value is 0, and a payload with "SizeRw":0 comes back   *)
(* without the key.                                                        *)
(***************************************************************************)
C11_SizeReferenceOrNumber ==
    \A g \in {"SizeRw", "SizeRootFs"} :
        /\ (typ = "ContainerJSONBase" /\ wire # None) =>
              LET x == val.e[FieldAt("ContainerJSONBase", g)]
              IN  /\ x.k = "ptr"
                  /\ g \in Keys(wire.o) <=> x # GNil("ptr")
                  /\ x = GPtr(GInt("", 0)) => <<g, JNum("", 0)>> \in wire.o
                  /\ (RoundTripped /\ ~err /\ <<g, JNum("", 0)>> \in recv.o) =>
                         /\ x = GPtr(GInt("", 0))
                         /\ <<g, JNum("", 0)>> \in wire.o
        /\ (typ = "Container" /\ wire # None) =>
              LET x == val.e[FieldAt("Container", g)]
              IN  /\ x.k = "int"
                  /\ g \in Keys(wire.o) <=> x # GInt("", 0)
                  /\ (RoundTripped /\ ~err /\ <<g, JNum("", 0)>> \in recv.o) =>
                         /\ x = GInt("", 0)
                         /\ g \notin Keys(wire.o)

\* An inspect payload with "SizeRw":0 was decoded and encoded again.
C11_Witness ==
    /\ typ = "ContainerJSONBase"
    /\ RoundTripped
    /\ ~err
    /\ <<"SizeRw", JNum("", 0)>> \in recv.o
    /\ <<"SizeRw", JNum("", 0)>> \in wire.o

\* A list payload with "SizeRw":0 was decoded and encoded again.
C11_WitnessList ==
    /\ typ = "Container"
    /\ RoundTripped
    /\ ~err
    /\ <<"SizeRw", JNum("", 0)>> \in recv.o
    /\ "SizeRw" \notin Keys(wire.o)

====
